---- MODULE Spec2Model ----
(***************************************************************************)
(* A model of the explicit hyperbolic update of ryujin (Euler equations    *)
(* with arbitrary equation of state): the pure functions of                *)
(* EulerAEOS::HyperbolicSystemView, its precomputation loop, and the step  *)
(* controller HyperbolicModule::step.                                      *)
(*                                                                         *)
(* Numbers of type Number (double / float) are modelled as binary          *)
(* floating-point numbers with a significand of Precision bits and        *)
(* round-to-nearest-even after every operation, as IEEE 754 prescribes.    *)
(* The exponent range is not bounded (no overflow, underflow, NaN).        *)
(***************************************************************************)
EXTENDS Integers, Sequences, FiniteSets, TLC

VARIABLES
    \* ---- pure-function harness (HyperbolicSystemView, dim = 1) ----
    fpc,        \* "input" | "done": position of the harness
    fU,         \* the SIMD-packed conserved state: a sequence of lanes [rho, m, E]
    fEos,       \* the EOS interpolation parameters [b, pinf, q]
    fPrim,      \* to_primitive_state of every lane
    fBack,      \* from_primitive_state(to_primitive_state) of every lane
    fAdm,       \* result of is_admissible on the packed state
    fSurr       \* per lane <<p, surrogate_gamma(U, p), surrogate_pressure>>

VARIABLES
    \* ---- HyperbolicSystemView::precomputation_loop ----
    phase,          \* position inside precomputation_loop
    cycle,          \* argument cycle (0 or 1)
    left,           \* argument left
    right,          \* argument right
    stride_size,    \* get_stride_size<Number>: 1 (scalar) or the SIMD width
    prefer_vector,  \* eos->prefer_vector_interface()
    columns,        \* sparsity_simd: row |-> its column indices, itself first
    Urows,          \* std::get<0>(state_vector): row |-> conserved state
    precomputed,    \* std::get<1>(state_vector): row |-> <<p, gamma, s, eta>>
    scratch,        \* the static vectors [p, rho, e], indexed from 0
    todo,           \* iterations of the current RYUJIN_OMP_FOR not yet run
    prec0,          \* history: precomputed when the current sweep was entered
    written,        \* history: rows passed to write_tensor in this sweep
    checked         \* history: arguments of dispatch_check in this sweep

VARIABLES
    \* ---- HyperbolicModule::step and its caller ----
    spc,                     \* position of the current call of step()
    id_violation_strategy_,  \* "warn" | "raise_exception"
    cfl_,                    \* the CFL number
    n_restarts_,             \* counter of raised Restart exceptions
    n_warnings_,             \* counter of ID violation warnings
    tau,                     \* argument tau of step()
    tau_max0,                \* argument tau_max of step() as passed in
    tau_max,                 \* rank |-> the atomic tau_max of that rank
    lambda_max,              \* RiemannSolver::compute for every directed edge
    remote_bound,            \* rank |-> CFL bound of the nodes of another rank
    dij_matrix_,             \* row |-> column |-> d_ij
    lij_matrix_,             \* row |-> column |-> l_ij
    limiter_iter,            \* limiter passes completed in this call
    tau_step,                \* the step size chosen for the update
    U_new,                   \* row |-> state written by the update
    restart_needed,          \* an ID violation was detected in this call
    result,                  \* the value returned by step(), or "none"
    stodo,                   \* rows of the current sweep not yet visited
    calls,                   \* history: calls of step() made by the caller
    local_tau_max,           \* history: tau_max of every rank before reduction
    update_tau,              \* history: step size used by the update
    n_restarts0,             \* history: n_restarts_ when step() was called
    n_warnings0,             \* history: n_warnings_ when step() was called
    cause                    \* history: what raised the Restart this call retries

VARIABLES
    \* ---- HyperbolicSystemView::apply_boundary_conditions ----
    bpc,        \* "input" | "returned" | "aborted" | "thrown"
    bbuild,     \* "debug" | "release": whether Assert is compiled in
    bid,        \* argument id
    bU,         \* argument U
    bnormal,    \* argument normal
    bdata,      \* the state get_dirichlet_data() returns
    bresult,    \* the state returned
    bbranches,  \* history: the branches of the dynamic case that ran
    bR          \* history: <<R_1, R_2>> of every reconstruction that ran

VARIABLES
    \* ---- start-up: EquationDispatch, HyperbolicSystem, InitialValues ----
    cpc,                    \* position of the start-up sequence
    dimension_,             \* EquationDispatch::dimension_
    equation_,              \* EquationDispatch::equation_
    equation_of_state_,     \* HyperbolicSystem::equation_of_state_
    configuration_,         \* InitialValues::configuration_
    initial_direction_,     \* InitialValues::initial_direction_ (dim = 1)
    time_loop_executed_,    \* EquationDispatch::time_loop_executed_
    message                 \* the message of the exception thrown, in pieces

VARIABLES
    \* ---- HyperbolicModule::cfl(new_cfl) ----
    kpc,        \* "ready" | "aborted"
    kbuild,     \* "debug" | "release"
    kargs       \* history: the arguments of the calls made so far

VARIABLES
    \* ---- HyperbolicSystemView::filter_vacuum_density ----
    vpc,                               \* "input" | "returned"
    reference_density_,
    vacuum_state_relaxation_large_,
    vrho,                              \* argument rho
    vresult                            \* the value returned

VARIABLES
    \* ---- the threads of the d_ij sweep tightening tau_max ----
    atomic_tau_max,     \* std::atomic<Number> tau_max
    atomic_tau_max0,    \* history: its value when the sweep started
    tpc,                \* per thread: "load" | "test" | "cas" | "done"
    tproposal,          \* per thread: its local minimum
    tcurrent            \* per thread: the value it loaded last

VARIABLES
    \* ---- EquationDispatch::signals and the drivers registered in it ----
    callbacks,      \* signals->dispatch: the names of the drivers, in order
    slot,           \* the callback that signals->dispatch calls next
    time_loops      \* history: the callbacks that ran a TimeLoop

VARIABLES
    \* ---- TimeLoop::run, TimeLoop::output and the output worker thread ----
    variant,                \* 1: TimeLoop<dim, Number>, 2: TimeLoop<dim>
    enable_compute_error,
    opc,                    \* position of the main thread in run()
    opos,                   \* its position inside output(), or "idle"
    oframe,                 \* the arguments [name, cycle] of that output()
    output_cycle,
    output_cycle0,          \* history: output_cycle at the initial output
    time_steps,             \* main-loop iterations started so far
    output_thread,          \* 0: not joinable, k: runs the k-th worker
    wstate,                 \* per worker: "running" | "read" | "committed"
    wread,                  \* per worker: what it found in the buffers
    output_vector,          \* output_vector, output_alpha and the schlieren
                            \* data: the [name, cycle] they were filled for
    scheduled,              \* history: "Schedule output cycle" lines
    committed               \* history: "Commit output cycle" lines

VARIABLES
    \* ---- Quantities: one manifold with one point ----
    qpc,                    \* "ready" | "thrown"
    options,                \* the option string of the manifold, as a set
    clear_temporal_statistics_on_writeout_,
    mesh_files_have_been_written_,
    prepared,               \* prepare() has filled the maps
    val_old,                \* <<state, state_square>> of the point
    val_new,
    val_sum,
    t_old,
    t_new,
    t_sum,
    qcalls,                 \* history: [t, val] of the accumulate calls
                            \* since the statistics were cleared
    qtime,                  \* history: the time of the last call
    write_outs,             \* history: write_out calls since prepare()
    mesh_written_at,        \* history: those that wrote the mesh files
    qops                    \* history: calls made so far

fvars == <<fpc, fU, fPrim, fBack, fAdm, fSurr>>

pvars == <<phase, cycle, left, right, stride_size, prefer_vector, columns,
           Urows, precomputed, scratch, todo, prec0, written, checked>>

bvars == <<bpc, bbuild, bid, bU, bnormal, bdata, bresult, bbranches, bR>>

\* The variables of the parts modelled further below.
cvars == <<cpc, dimension_, equation_, equation_of_state_, configuration_,
           initial_direction_, time_loop_executed_, message>>

kvars == <<kpc, kbuild, kargs>>

vvars == <<vpc, reference_density_, vacuum_state_relaxation_large_, vrho,
           vresult>>

tvars == <<atomic_tau_max, atomic_tau_max0, tpc, tproposal, tcurrent>>

dvars == <<callbacks, slot, time_loops>>

ovars == <<variant, enable_compute_error, opc, opos, oframe, output_cycle,
           output_cycle0, time_steps, output_thread, wstate, wread,
           output_vector, scheduled, committed>>

qvars == <<qpc, options, clear_temporal_statistics_on_writeout_,
           mesh_files_have_been_written_, prepared, val_old, val_new, val_sum,
           t_old, t_new, t_sum, qcalls, qtime, write_outs, mesh_written_at,
           qops>>

wvars == <<dvars, ovars, qvars>>

evars == <<bvars, cvars, kvars, vvars, tvars, wvars>>

svars == <<spc, id_violation_strategy_, cfl_, n_restarts_, n_warnings_, tau,
           tau_max0, tau_max, lambda_max, remote_bound, dij_matrix_,
           lij_matrix_, limiter_iter, tau_step, U_new, restart_needed, result,
           stodo, calls, local_tau_max, update_tau, n_restarts0, n_warnings0,
           cause>>

vars == <<fpc, fU, fEos, fPrim, fBack, fAdm, fSurr,
          phase, cycle, left, right, stride_size, prefer_vector, columns,
          Urows, precomputed, scratch, todo, prec0, written, checked,
          spc, id_violation_strategy_, cfl_, n_restarts_, n_warnings_, tau,
          tau_max0, tau_max, lambda_max, remote_bound, dij_matrix_,
          lij_matrix_, limiter_iter, tau_step, U_new, restart_needed, result,
          stodo, calls, local_tau_max, update_tau, n_restarts0, n_warnings0,
          cause,
          bpc, bbuild, bid, bU, bnormal, bdata, bresult, bbranches, bR,
          cpc, dimension_, equation_, equation_of_state_, configuration_,
          initial_direction_, time_loop_executed_, message,
          kpc, kbuild, kargs,
          vpc, reference_density_, vacuum_state_relaxation_large_, vrho,
          vresult,
          atomic_tau_max, atomic_tau_max0, tpc, tproposal, tcurrent,
          callbacks, slot, time_loops,
          variant, enable_compute_error, opc, opos, oframe, output_cycle,
          output_cycle0, time_steps, output_thread, wstate, wread,
          output_vector, scheduled, committed,
          qpc, options, clear_temporal_statistics_on_writeout_,
          mesh_files_have_been_written_, prepared, val_old, val_new, val_sum,
          t_old, t_new, t_sum, qcalls, qtime, write_outs, mesh_written_at,
          qops>>

-----------------------------------------------------------------------------
(* Floating-point arithmetic                                                *)

\* Number of significand bits of the modelled floating-point format.
Precision == 4

RECURSIVE Pow2(_)
Pow2(k) == IF k <= 0 THEN 1 ELSE 2 * Pow2(k - 1)

Abs(x) == IF x < 0 THEN -x ELSE x

Sign(x) == IF x < 0 THEN -1 ELSE IF x > 0 THEN 1 ELSE 0

FZero == [m |-> 0, e |-> 0]

\* The float nearest to (a / d) * 2^e for integers a >= 0, d > 0, ties to
\* even; the result is normalised: 2^(Precision-1) <= m < 2^Precision.
RECURSIVE RoundQ(_, _, _)
RoundQ(a, d, e) ==
    IF a = 0 THEN FZero
    ELSE IF a < Pow2(Precision - 1) * d THEN RoundQ(2 * a, d, e - 1)
    ELSE IF a >= Pow2(Precision) * d THEN RoundQ(a, 2 * d, e + 1)
    ELSE LET q == a \div d
             r == a % d
             up == (2 * r > d) \/ (2 * r = d /\ q % 2 = 1)
             mm == IF up THEN q + 1 ELSE q
         IN IF mm = Pow2(Precision)
               THEN [m |-> Pow2(Precision - 1), e |-> e + 1]
               ELSE [m |-> mm, e |-> e]

\* Signed variant: the float nearest to (a / d) * 2^e, d > 0.
Round(a, d, e) ==
    LET r == RoundQ(Abs(a), d, e)
    IN [m |-> Sign(a) * r.m, e |-> r.e]

\* Conversion of an integer literal.
F(n) == Round(n, 1, 0)

FHalf == Round(1, 2, 0)

FNeg(x) == [m |-> -x.m, e |-> x.e]

FMul(x, y) == Round(x.m * y.m, 1, x.e + y.e)

\* x / y for y # 0.
FDiv(x, y) == Round(x.m * Sign(y.m), Abs(y.m), x.e - y.e)

\* x + y.  A summand below a quarter of a unit in the last place of the other
\* one does not change the rounded sum.
FAdd(x, y) ==
    IF x.m = 0 THEN y
    ELSE IF y.m = 0 THEN x
    ELSE IF x.e - y.e > Precision + 2 THEN x
    ELSE IF y.e - x.e > Precision + 2 THEN y
    ELSE LET lo == IF x.e < y.e THEN x.e ELSE y.e
         IN Round(x.m * Pow2(x.e - lo) + y.m * Pow2(y.e - lo), 1, lo)

FSub(x, y) == FAdd(x, FNeg(y))

\* Exact comparison of two floats: the sign of x - y.
FCmp(x, y) ==
    IF Sign(x.m) # Sign(y.m) THEN Sign(Sign(x.m) - Sign(y.m))
    ELSE IF x.m = 0 THEN 0
    ELSE IF x.e # y.e THEN Sign(x.m) * Sign(x.e - y.e)
    ELSE Sign(x.m - y.m)

FGt(x, y) == FCmp(x, y) > 0

FGe(x, y) == FCmp(x, y) >= 0

FMax(x, y) == IF FCmp(x, y) >= 0 THEN x ELSE y

FMin(x, y) == IF FCmp(x, y) <= 0 THEN x ELSE y

\* |x - y| <= k units in the last place of ref (exact, no rounding).
WithinUlps(x, y, k, ref) ==
    LET lo1 == IF x.e < y.e THEN x.e ELSE y.e
        lo == IF ref.e < lo1 THEN ref.e ELSE lo1
    IN Abs(x.m * Pow2(x.e - lo) - y.m * Pow2(y.e - lo)) <= k * Pow2(ref.e - lo)

-----------------------------------------------------------------------------
(* EulerAEOS::HyperbolicSystemView, dim = 1: a state is <<rho, m, E>>       *)

\* Largest SIMD width of a packed state in the harness.
MaxLanes == 2

\* The parameters of the selected equation of state, as floats.
eos_interpolation_b == fEos[1]

eos_interpolation_pinfty == fEos[2]

eos_interpolation_q == fEos[3]

\* The parameter a_ of the van der Waals equation of state.
vdw_a == fEos[4]

density(U) == U[1]

momentum(U) == U[2]

total_energy(U) == U[3]

\* rho e = E - 1/2 |m|^2 / rho, evaluated as E - ((0.5 * m.m) * (1 / rho)).
internal_energy(U) ==
    LET rho_inverse == FDiv(F(1), density(U))
        m == momentum(U)
        E == total_energy(U)
    IN FSub(E, FMul(FMul(FHalf, FMul(m, m)), rho_inverse))

\* The mutant of compare_and_apply_mask: greater-or-equal instead of greater.
compare_and_apply_mask_ge(l, r, t, f) == IF FGe(l, r) THEN t ELSE f

\* dealii::compare_and_apply_mask<SIMDComparison::greater_than> on one lane.
compare_and_apply_mask_gt(l, r, t, f) == IF FGt(l, r) THEN t ELSE f

\* The shifted internal energy rho e - rho q - pinf (1 - b rho) of one lane.
admissible_shift(U) ==
    LET b == eos_interpolation_b
        pinf == eos_interpolation_pinfty
        q == eos_interpolation_q
        rho == density(U)
        rho_e == internal_energy(U)
        covolume == FSub(F(1), FMul(b, rho))
    IN FSub(FSub(rho_e, FMul(rho, q)), FMul(pinf, covolume))

\* The mutant of admissible_test: only the density is tested.
admissible_test_density(U) ==
    compare_and_apply_mask_gt(density(U), F(0), F(0), F(-1))

\* The value of "test" in one lane.  For rho = 0 the reciprocal is infinite
\* and the shift is -inf or NaN; every ordered comparison with it is false.
admissible_test(U) ==
    LET rho == density(U)
        shift_mask == IF rho.m = 0
                         THEN F(-1)
                         ELSE compare_and_apply_mask_gt(
                                  admissible_shift(U), F(0), F(0), F(-1))
    IN FAdd(compare_and_apply_mask_gt(rho, F(0), F(0), F(-1)), shift_mask)

\* is_admissible of a packed state: test == Number(0.) holds when it holds in
\* every lane.
is_admissible(Us) ==
    \A k \in 1..Len(Us) : admissible_test(Us[k]) = F(0)

to_primitive_state(state) ==
    LET rho == density(state)
        rho_inverse == FDiv(F(1), rho)
        rho_e == internal_energy(state)
    IN <<rho, FMul(state[2], rho_inverse), FMul(rho_e, rho_inverse)>>

\* The mutant of from_primitive_state: the density is rescaled as well.
from_primitive_state_scaled(primitive_state) ==
    LET rho == density(primitive_state)
        u == momentum(primitive_state)
        e == total_energy(primitive_state)
    IN <<FMul(rho, rho), FMul(primitive_state[2], rho),
         FAdd(FMul(rho, e), FMul(FMul(FMul(FHalf, rho), u), u))>>

\* state[dim + 1] = rho * e + Number(0.5) * rho * u * u, left to right.
from_primitive_state(primitive_state) ==
    LET rho == density(primitive_state)
        u == momentum(primitive_state)
        e == total_energy(primitive_state)
    IN <<rho, FMul(primitive_state[2], rho),
         FAdd(FMul(rho, e), FMul(FMul(FMul(FHalf, rho), u), u))>>

-----------------------------------------------------------------------------
(* Values of the variables of a part of the program that is not running     *)

PrecomputeIdle ==
    /\ phase = "idle"
    /\ cycle = 0
    /\ left = 0
    /\ right = 0
    /\ stride_size = 1
    /\ prefer_vector = FALSE
    /\ columns = <<>>
    /\ Urows = <<>>
    /\ precomputed = <<>>
    /\ scratch = <<>>
    /\ todo = {}
    /\ prec0 = <<>>
    /\ written = {}
    /\ checked = <<>>

PureIdle ==
    /\ fpc = "idle"
    /\ fU = <<>>
    /\ fPrim = <<>>
    /\ fBack = <<>>
    /\ fAdm = FALSE
    /\ fSurr = <<>>

BoundaryIdle ==
    /\ bpc = "idle"
    /\ bbuild = "release"
    /\ bid = "dirichlet"
    /\ bU = <<>>
    /\ bnormal = FZero
    /\ bdata = <<>>
    /\ bresult = <<>>
    /\ bbranches = <<>>
    /\ bR = <<>>

ConfigIdle ==
    /\ cpc = "idle"
    /\ dimension_ = 0
    /\ equation_ = ""
    /\ equation_of_state_ = ""
    /\ configuration_ = ""
    /\ initial_direction_ = FZero
    /\ time_loop_executed_ = FALSE
    /\ message = <<>>

CflIdle ==
    /\ kpc = "idle"
    /\ kbuild = "release"
    /\ kargs = <<>>

VacuumIdle ==
    /\ vpc = "idle"
    /\ reference_density_ = FZero
    /\ vacuum_state_relaxation_large_ = FZero
    /\ vrho = FZero
    /\ vresult = FZero

ThreadsIdle ==
    /\ atomic_tau_max = FZero
    /\ atomic_tau_max0 = FZero
    /\ tpc = <<>>
    /\ tproposal = <<>>
    /\ tcurrent = <<>>

DispatchIdle ==
    /\ callbacks = <<>>
    /\ slot = 0
    /\ time_loops = <<>>

OutputIdle ==
    /\ variant = 1
    /\ enable_compute_error = FALSE
    /\ opc = "idle"
    /\ opos = "idle"
    /\ oframe = <<>>
    /\ output_cycle = 0
    /\ output_cycle0 = 0
    /\ time_steps = 0
    /\ output_thread = 0
    /\ wstate = <<>>
    /\ wread = <<>>
    /\ output_vector = <<>>
    /\ scheduled = <<>>
    /\ committed = <<>>

QuantitiesIdle ==
    /\ qpc = "idle"
    /\ options = {}
    /\ clear_temporal_statistics_on_writeout_ = FALSE
    /\ mesh_files_have_been_written_ = FALSE
    /\ prepared = FALSE
    /\ val_old = <<>>
    /\ val_new = <<>>
    /\ val_sum = <<>>
    /\ t_old = FZero
    /\ t_new = FZero
    /\ t_sum = FZero
    /\ qcalls = <<>>
    /\ qtime = FZero
    /\ write_outs = 0
    /\ mesh_written_at = {}
    /\ qops = 0

LateIdle == DispatchIdle /\ OutputIdle /\ QuantitiesIdle

OthersIdle ==
    /\ BoundaryIdle /\ ConfigIdle /\ CflIdle /\ VacuumIdle /\ ThreadsIdle
    /\ LateIdle

\* Everything of the step controller but the stored CFL number.
StepIdleButCfl ==
    /\ spc = "idle"
    /\ id_violation_strategy_ = "warn"
    /\ n_restarts_ = 0
    /\ n_warnings_ = 0
    /\ tau = FZero
    /\ tau_max0 = FZero
    /\ tau_max = <<>>
    /\ lambda_max = <<>>
    /\ remote_bound = <<>>
    /\ dij_matrix_ = <<>>
    /\ lij_matrix_ = <<>>
    /\ limiter_iter = 0
    /\ tau_step = FZero
    /\ U_new = <<>>
    /\ restart_needed = FALSE
    /\ result = "none"
    /\ stodo = {}
    /\ calls = 0
    /\ local_tau_max = <<>>
    /\ update_tau = FZero
    /\ n_restarts0 = 0
    /\ n_warnings0 = 0
    /\ cause = "none"

StepIdle == StepIdleButCfl /\ cfl_ = FZero

-----------------------------------------------------------------------------
(* Harness applying the pure functions to inputs drawn from bounded sets    *)

RhoInputs == {F(-1), F(0), F(1), F(3)}

MomentumInputs == {F(0), F(7)}

EnergyInputs == {F(0), F(2), F(9)}

LaneInputs ==
    {<<r, m, E>> : r \in RhoInputs, m \in MomentumInputs, E \in EnergyInputs}

PackedInputs ==
    UNION {[1..w -> LaneInputs] : w \in 1..MaxLanes}

\* <<b, pinf, q, a>>: a polytropic gas (the van der Waals gas with its
\* default parameters), a stiffened gas, a noble-Abel stiffened gas with
\* b = 1/4, and the van der Waals gas with "vdw a" = 1.
EosInputs ==
    {<<F(0), F(0), F(0), F(0)>>, <<F(0), F(1), F(0), F(0)>>,
     <<Round(1, 4, 0), F(1), F(1), F(0)>>, <<F(0), F(0), F(0), F(1)>>}

InitPure ==
    /\ StepIdle
    /\ OthersIdle
    /\ fpc = "input"
    /\ fU \in PackedInputs
    /\ fEos \in EosInputs
    /\ fPrim = <<>>
    /\ fBack = <<>>
    /\ fAdm = FALSE
    /\ fSurr = <<>>
    /\ PrecomputeIdle

ApplyIsAdmissible ==
    /\ fpc = "input"
    /\ fAdm' = is_admissible(fU)
    /\ fpc' = "admissible"
    /\ UNCHANGED <<fU, fEos, fPrim, fBack, fSurr>>
    /\ UNCHANGED <<pvars, svars, evars>>

ApplyRoundTrip ==
    /\ fpc = "input"
    /\ \A k \in 1..Len(fU) : density(fU[k]).m # 0
    /\ fPrim' = [k \in 1..Len(fU) |-> to_primitive_state(fU[k])]
    /\ fBack' = [k \in 1..Len(fU) |->
                    from_primitive_state(to_primitive_state(fU[k]))]
    /\ fpc' = "roundtrip"
    /\ UNCHANGED <<fU, fEos, fAdm, fSurr>>
    /\ UNCHANGED <<pvars, svars, evars>>

-----------------------------------------------------------------------------
(* EquationOfStateLibrary::VanDerWaals and the surrogate functions          *)

\* The exponent of std::numeric_limits<double>::min() = 2^-1022.
MinNormalExponent == 1022

\* std::numeric_limits<ScalarNumber>::min(), the smallest normal number.
NumericLimitsMin ==
    [m |-> Pow2(Precision - 1), e |-> -MinNormalExponent - (Precision - 1)]

safe_division(numerator, denominator) ==
    FDiv(FMax(numerator, F(0)), FMax(denominator, NumericLimitsMin))

\* gamma_ = 7. / 5.
vdw_gamma == Round(7, 5, 0)

\* VanDerWaals::pressure(rho, e)
vdw_pressure(rho, e) ==
    LET intermolecular == FMul(FMul(vdw_a, rho), rho)
        numerator == FAdd(FMul(rho, e), intermolecular)
        covolume == FSub(F(1), FMul(eos_interpolation_b, rho))
    IN FSub(FDiv(FMul(FSub(vdw_gamma, F(1)), numerator), covolume),
            intermolecular)

\* eos_pressure of a scalar Number: one call into the equation of state.
eos_pressure(rho, e) == vdw_pressure(rho, e)

surrogate_gamma(U, p) ==
    LET b == eos_interpolation_b
        pinf == eos_interpolation_pinfty
        q == eos_interpolation_q
        rho == density(U)
        rho_e == internal_energy(U)
        covolume == FSub(F(1), FMul(b, rho))
        numerator == FMul(FAdd(p, pinf), covolume)
        denominator == FSub(FSub(rho_e, FMul(rho, q)), FMul(covolume, pinf))
    IN FAdd(F(1), safe_division(numerator, denominator))

positive_part(number) == FMax(F(0), number)

surrogate_pressure(U, gamma) ==
    LET b == eos_interpolation_b
        pinf == eos_interpolation_pinfty
        q == eos_interpolation_q
        rho == density(U)
        rho_e == internal_energy(U)
        covolume == FSub(F(1), FMul(b, rho))
    IN FSub(FMul(positive_part(FSub(gamma, F(1))),
                 safe_division(FSub(rho_e, FMul(rho, q)), covolume)),
            FMul(gamma, pinf))

\* The selected equation of state is the van der Waals gas: it sets
\* interpolation_b_ only.
van_der_waals_selected ==
    eos_interpolation_pinfty = F(0) /\ eos_interpolation_q = F(0)

\* The pressure of the equation of state, the surrogate gamma for it and the
\* surrogate pressure for that gamma, per lane, as the precomputation
\* obtains them: p = eos_pressure(rho, rho_e / rho).
ApplySurrogate ==
    /\ fpc = "input"
    /\ van_der_waals_selected
    /\ \A k \in 1..Len(fU) : density(fU[k]).m # 0
    /\ fSurr' = [k \in 1..Len(fU) |->
           LET U == fU[k]
               p == eos_pressure(density(U),
                                 FDiv(internal_energy(U), density(U)))
               gamma == surrogate_gamma(U, p)
           IN <<p, gamma, surrogate_pressure(U, gamma)>>]
    /\ fpc' = "surrogate"
    /\ UNCHANGED <<fU, fEos, fPrim, fBack, fAdm>>
    /\ UNCHANGED <<pvars, svars, evars>>

NextPure == ApplyIsAdmissible \/ ApplyRoundTrip \/ ApplySurrogate

SpecPure == InitPure /\ [][NextPure]_vars

\* The entropies raise to the real power gamma_min; their values are kept as
\* terms naming the function and its two arguments.
surrogate_specific_entropy(U, gamma_min) == <<"s", U, gamma_min>>

surrogate_harten_entropy(U, gamma_min) == <<"eta", U, gamma_min>>

\* Number(0.) in the entropy slots of a precomputed tuple.
ZeroEntropy == <<"zero", <<>>, F(0)>>

-----------------------------------------------------------------------------
(* HyperbolicSystemView::precomputation_loop                                *)

\* Number of rows of the state vector.
NRows == 4

Rows == 0..(NRows - 1)

\* The largest SIMD width of the loop.
MaxStride == 2

\* The rows of the SIMD block that starts at row i.
Block(i) == {r \in Rows : i <= r /\ r < i + stride_size}

\* sparsity_simd.row_length(i)
row_length(i) == Len(columns[i])

\* The iterations "for (i = from; i < to; i += stride_size)".
Iterations(from, to) ==
    {i \in from..(to - 1) : (i - from) % stride_size = 0}

\* precomputation_loop is entered: nothing of the sweep has been done.
LoopEnter ==
    /\ phase = "enter"
    /\ phase' = IF cycle = 1 THEN "cycle1"
                ELSE IF prefer_vector THEN "resize" ELSE "scalar"
    /\ todo' = IF cycle = 0 /\ prefer_vector THEN {} ELSE Iterations(left, right)
    /\ prec0' = precomputed
    /\ written' = {}
    /\ checked' = [i \in Rows |-> 0]
    /\ UNCHANGED <<cycle, left, right, stride_size, prefer_vector, columns,
                   Urows, precomputed, scratch>>
    /\ UNCHANGED <<fvars, fEos, svars, evars>>

\* RYUJIN_OMP_SINGLE { p.resize(size); rho.resize(size); e.resize(size); }
\* The static vectors keep the entries they had; new entries are 0.
VectorResize ==
    /\ phase = "resize"
    /\ LET size == right - left
           old(v, i) == IF i \in DOMAIN scratch[v] THEN scratch[v][i] ELSE F(0)
       IN scratch' = [v \in 1..3 |-> [i \in 0..(size - 1) |-> old(v, i)]]
    /\ phase' = "fill"
    /\ todo' = Iterations(0, right - left)
    /\ UNCHANGED <<cycle, left, right, stride_size, prefer_vector, columns,
                   Urows, precomputed, prec0, written, checked>>
    /\ UNCHANGED <<fvars, fEos, svars, evars>>

\* One iteration of the first RYUJIN_OMP_FOR of the vector path: rho and e of
\* every row of the block, constrained or not, go to the scratch vectors.
VectorFill(i) ==
    /\ phase = "fill"
    /\ i \in todo
    /\ LET offset == left
           lanes == {k \in 0..(stride_size - 1) : offset + i + k \in Rows}
           rho_i(k) == density(Urows[offset + i + k])
           e_i(k) == FDiv(internal_energy(Urows[offset + i + k]), rho_i(k))
       IN scratch' = [scratch EXCEPT
              ![2] = [j \in DOMAIN scratch[2] |->
                         IF j - i \in lanes THEN rho_i(j - i) ELSE scratch[2][j]],
              ![3] = [j \in DOMAIN scratch[3] |->
                         IF j - i \in lanes THEN e_i(j - i) ELSE scratch[3][j]]]
    /\ todo' = todo \ {i}
    /\ UNCHANGED <<phase, cycle, left, right, stride_size, prefer_vector,
                   columns, Urows, precomputed, prec0, written, checked>>
    /\ UNCHANGED <<fvars, fEos, svars, evars>>

\* The mutant of fill_loop_finished: the fill loop without the barrier that
\* ends it.
fill_loop_nowait == TRUE

\* The barrier that ends the first RYUJIN_OMP_FOR: every iteration has run.
fill_loop_finished == todo = {}

\* RYUJIN_OMP_SINGLE { eos->pressure(p, rho, e); } after the fill loop.
VectorPressure ==
    /\ phase = "fill"
    /\ fill_loop_finished
    /\ scratch' = [scratch EXCEPT
           ![1] = [j \in DOMAIN scratch[1] |->
                      eos_pressure(scratch[2][j], scratch[3][j])]]
    /\ phase' = "write"
    /\ todo' = Iterations(0, right - left)
    /\ UNCHANGED <<cycle, left, right, stride_size, prefer_vector, columns,
                   Urows, precomputed, prec0, written, checked>>
    /\ UNCHANGED <<fvars, fEos, svars, evars>>

\* The mutant of VectorWriteRowLength: the row length of the row written.
VectorWriteRowLengthOfRow(i) == row_length(left + i)

\* The row length the second loop of the vector path tests for iteration i:
\* sparsity_simd.row_length(i), with i counted from 0 and not from offset.
VectorWriteRowLength(i) == row_length(i)

\* One iteration of the second RYUJIN_OMP_FOR of the vector path.
VectorWrite(i) ==
    /\ phase = "write"
    /\ i \in todo
    /\ todo' = todo \ {i}
    /\ IF VectorWriteRowLength(i) = 1
          THEN UNCHANGED <<precomputed, written, checked>>
          ELSE LET offset == left
                   prec(r) ==
                       LET p_i == scratch[1][r - offset]
                           gamma_i == surrogate_gamma(Urows[r], p_i)
                       IN <<p_i, gamma_i, ZeroEntropy, ZeroEntropy>>
               IN /\ checked' = [checked EXCEPT ![i] = @ + 1]
                  /\ precomputed' = [r \in Rows |->
                         IF r \in Block(offset + i) THEN prec(r)
                                                    ELSE precomputed[r]]
                  /\ written' = written \cup Block(offset + i)
    /\ UNCHANGED <<phase, cycle, left, right, stride_size, prefer_vector,
                   columns, Urows, scratch, prec0>>
    /\ UNCHANGED <<fvars, fEos, svars, evars>>

\* One iteration of the RYUJIN_OMP_FOR of the scalar path of cycle 0.
ScalarWrite(i) ==
    /\ phase = "scalar"
    /\ i \in todo
    /\ todo' = todo \ {i}
    /\ IF row_length(i) = 1
          THEN UNCHANGED <<precomputed, written, checked>>
          ELSE LET prec(r) ==
                       LET U_i == Urows[r]
                           rho_i == density(U_i)
                           e_i == FDiv(internal_energy(U_i), rho_i)
                           p_i == eos_pressure(rho_i, e_i)
                           gamma_i == surrogate_gamma(U_i, p_i)
                       IN <<p_i, gamma_i, ZeroEntropy, ZeroEntropy>>
               IN /\ checked' = [checked EXCEPT ![i] = @ + 1]
                  /\ precomputed' = [r \in Rows |->
                         IF r \in Block(i) THEN prec(r) ELSE precomputed[r]]
                  /\ written' = written \cup Block(i)
    /\ UNCHANGED <<phase, cycle, left, right, stride_size, prefer_vector,
                   columns, Urows, scratch, prec0>>
    /\ UNCHANGED <<fvars, fEos, svars, evars>>

\* The mutant of gamma_j: the second entry of the tuple stored for row j.
gamma_j_stored(j) == precomputed[j][2]

\* gamma_j of the inner loop of cycle 1: recomputed from U_j and the p_j
\* stored for row j; the other entries of prec_j are not used.
gamma_j(j) ==
    LET p_j == precomputed[j][1]
    IN surrogate_gamma(Urows[j], p_j)

\* gamma_min over the columns col_idx = from .. row_length - 1 of row r,
\* starting from g: the inner loop of cycle 1 for one lane.
RECURSIVE GammaMinOver(_, _, _, _)
GammaMinOver(r, col_idx, len, g) ==
    IF col_idx > len THEN g
    ELSE LET j == columns[r][col_idx]
         IN GammaMinOver(r, col_idx + 1, len, FMin(g, gamma_j(j)))

\* One iteration of the RYUJIN_OMP_FOR of cycle 1.
CycleOneWrite(i) ==
    /\ phase = "cycle1"
    /\ i \in todo
    /\ todo' = todo \ {i}
    /\ IF row_length(i) = 1
          THEN UNCHANGED <<precomputed, written, checked>>
          ELSE LET prec(r) ==
                       LET U_i == Urows[r]
                           p_i == precomputed[r][1]
                           gamma_min_i ==
                               GammaMinOver(r, 2, row_length(i),
                                            precomputed[r][2])
                       IN <<p_i, gamma_min_i,
                            surrogate_specific_entropy(U_i, gamma_min_i),
                            surrogate_harten_entropy(U_i, gamma_min_i)>>
               IN /\ checked' = [checked EXCEPT ![i] = @ + 1]
                  /\ precomputed' = [r \in Rows |->
                         IF r \in Block(i) THEN prec(r) ELSE precomputed[r]]
                  /\ written' = written \cup Block(i)
    /\ UNCHANGED <<phase, cycle, left, right, stride_size, prefer_vector,
                   columns, Urows, scratch, prec0>>
    /\ UNCHANGED <<fvars, fEos, svars, evars>>

\* The last loop of the sweep has run all its iterations: the call returns.
LoopReturn ==
    /\ phase \in {"write", "scalar", "cycle1"}
    /\ todo = {}
    /\ phase' = "returned"
    /\ UNCHANGED <<cycle, left, right, stride_size, prefer_vector, columns,
                   Urows, precomputed, scratch, todo, prec0, written, checked>>
    /\ UNCHANGED <<fvars, fEos, svars, evars>>

\* The caller runs the n_precomputation_cycles = 2 cycles one after the other
\* over the same range.
NextCycle ==
    /\ phase = "returned"
    /\ cycle = 0
    /\ cycle' = 1
    /\ phase' = "enter"
    /\ UNCHANGED <<left, right, stride_size, prefer_vector, columns, Urows,
                   precomputed, scratch, todo, prec0, written, checked>>
    /\ UNCHANGED <<fvars, fEos, svars, evars>>

\* Sparsity patterns: the blocks of stride_size rows form a chain, the
\* blocks of the set con are constrained (row length 1), and lane k of a
\* block is coupled to lane k of its unconstrained neighbour blocks.
PatternOf(w, con) ==
    LET nblocks == NRows \div w
        free(b) == b \in 0..(nblocks - 1) /\ b \notin con
        nb(i) == LET b == i \div w
                     k == i % w
                 IN (IF free(b - 1) THEN <<(b - 1) * w + k>> ELSE <<>>)
                    \o (IF free(b + 1) THEN <<(b + 1) * w + k>> ELSE <<>>)
    IN [i \in Rows |-> IF free(i \div w) THEN <<i>> \o nb(i) ELSE <<i>>]

Patterns(w) ==
    {PatternOf(w, con) : con \in {c \in SUBSET (0..(NRows \div w - 1)) :
                                      Cardinality(c) <= 1}}

\* Admissible conserved states of the rows, of positive pressure under both
\* equations of state of the sweeps.
RowStates == {<<F(1), F(0), F(2)>>, <<F(1), F(1), F(8)>>}

\* The entries of the precomputed vector before the first sweep.
StalePrecomputed == <<F(1), F(1), ZeroEntropy, ZeroEntropy>>

\* The equations of state of the sweeps: the polytropic gas, for which the
\* surrogate gamma is the same on every row, and the van der Waals gas with
\* "vdw a" = 1, for which it depends on the state of the row.
PrecomputeEosInputs ==
    {<<F(0), F(0), F(0), F(0)>>, <<F(0), F(0), F(0), F(1)>>}

InitPrecompute ==
    /\ PureIdle
    /\ StepIdle
    /\ OthersIdle
    /\ fEos \in PrecomputeEosInputs
    /\ phase = "enter"
    /\ cycle = 0
    /\ stride_size \in 1..MaxStride
    /\ left \in Iterations(0, NRows)
    /\ right \in {r \in Iterations(0, NRows + 1) : left < r /\ r <= NRows}
    /\ prefer_vector \in BOOLEAN
    /\ columns \in Patterns(stride_size)
    /\ Urows \in [Rows -> RowStates]
    /\ precomputed = [r \in Rows |-> StalePrecomputed]
    /\ scratch = [v \in 1..3 |-> <<>>]
    /\ todo = {}
    /\ prec0 = precomputed
    /\ written = {}
    /\ checked = [i \in Rows |-> 0]

NextPrecompute ==
    \/ LoopEnter
    \/ VectorResize
    \/ \E i \in Rows : VectorFill(i)
    \/ VectorPressure
    \/ \E i \in Rows : VectorWrite(i)
    \/ \E i \in Rows : ScalarWrite(i)
    \/ \E i \in Rows : CycleOneWrite(i)
    \/ LoopReturn
    \/ NextCycle

SpecPrecompute == InitPrecompute /\ [][NextPrecompute]_vars

-----------------------------------------------------------------------------
(* Claims about the pure functions (checked under SpecPure)                 *)

\* A lane is admissible in the strict sense the code tests.
LaneStrictlyAdmissible(U) ==
    /\ FGt(density(U), F(0))
    /\ FGt(admissible_shift(U), F(0))

\* A lane is admissible in the sense of the specification (shift >= 0).
LaneSpecAdmissible(U) ==
    /\ FGt(density(U), F(0))
    /\ FGe(admissible_shift(U), F(0))

\* C9 as stated: is_admissible(U) is true exactly when every lane has
\* rho > 0 and a shifted internal energy >= 0.
C9_Original ==
    fpc = "admissible" =>
        (fAdm <=> \A k \in 1..Len(fU) : LaneSpecAdmissible(fU[k]))

\* C9 amended: is_admissible(U) is true exactly when every lane has rho > 0
\* and a shifted internal energy (as evaluated by the code) strictly greater
\* than 0; a lane whose shifted internal energy is exactly 0 is rejected.
C9_StrictAdmissible ==
    fpc = "admissible" =>
        (fAdm <=> \A k \in 1..Len(fU) : LaneStrictlyAdmissible(fU[k]))

\* A packed state with one admissible lane and one lane of positive density
\* whose shifted internal energy is exactly 0 has been tested and rejected.
C9_Witness ==
    /\ fpc = "admissible"
    /\ Len(fU) = 2
    /\ LaneStrictlyAdmissible(fU[1])
    /\ FGt(density(fU[2]), F(0))
    /\ admissible_shift(fU[2]) = F(0)
    /\ ~fAdm

\* C10 as stated: for positive density the round trip
\* from_primitive_state(to_primitive_state(U)) returns U exactly.
C10_Original ==
    (fpc = "roundtrip" /\ \A k \in 1..Len(fU) : FGt(density(fU[k]), F(0)))
        => fBack = fU

\* C10 amended: for positive density the round trip returns the density
\* exactly and the momentum to within 3 units in the last place; when the
\* internal energy is non-negative it returns the total energy to within 12
\* units in the last place.  (Equality holds in exact arithmetic only.)
C10_RoundTripUpToRounding ==
    fpc = "roundtrip" =>
        \A k \in 1..Len(fU) :
            FGt(density(fU[k]), F(0)) =>
                /\ fBack[k][1] = fU[k][1]
                /\ WithinUlps(fBack[k][2], fU[k][2], 3, fU[k][2])
                /\ FGe(internal_energy(fU[k]), F(0)) =>
                       WithinUlps(fBack[k][3], fU[k][3], 12, fU[k][3])

\* A round trip of a packed state of positive density and non-negative
\* internal energy has been computed and differs from its input.
C10_Witness ==
    /\ fpc = "roundtrip"
    /\ Len(fU) = 2
    /\ \A k \in 1..2 : /\ FGt(density(fU[k]), F(0))
                       /\ FGe(internal_energy(fU[k]), F(0))
    /\ fBack[1] = fU[1]
    /\ fBack[2] # fU[2]

-----------------------------------------------------------------------------
(* Claims about the precomputation loop (checked under SpecPrecompute)      *)

\* The rows of [left, right) are treated as the claim says: a constrained
\* row is not written and keeps its entry, every other row is written.
RowsSkippedExactlyWhenConstrained ==
    \A r \in left..(right - 1) :
        /\ row_length(r) = 1 => (r \notin written /\ precomputed[r] = prec0[r])
        /\ row_length(r) # 1 => r \in written

\* C8: when a precomputation sweep (either cycle, either EOS mode, any range)
\* has returned, a row of [left, right) was skipped exactly when its
\* row_length is 1: constrained rows are unchanged, all others are written.
C8_SkipConstrainedRows ==
    phase = "returned" => RowsSkippedExactlyWhenConstrained

\* C8 restricted to the sweeps that do not take the vector-EOS path with
\* left > 0 (there the claim holds).
C8_HoldsOutsideVectorOffset ==
    (phase = "returned" /\ ~(cycle = 0 /\ prefer_vector /\ left > 0))
        => RowsSkippedExactlyWhenConstrained

\* A vector-EOS sweep of cycle 0 with left > 0 over a range that holds a
\* constrained row has returned.
C8_Witness ==
    /\ phase = "returned"
    /\ cycle = 0
    /\ prefer_vector
    /\ left > 0
    /\ \E r \in left..(right - 1) : row_length(r) = 1

-----------------------------------------------------------------------------
(* HyperbolicModule::step: the step controller.  One rank is modelled in    *)
(* full; of the other ranks only the tau_max they contribute is kept.  The  *)
(* two precomputation sweeps the step starts with are the subject of        *)
(* SpecPrecompute; their results reach the step through lambda_max.         *)

\* Number of MPI ranks of the global communicator.
NRanks == 3

Ranks == 1..NRanks

\* The rank whose step() is modelled in full.
this_rank == 1

\* The ensemble (sub-communicator) of a rank: two ranks per ensemble.
ensemble_of(r) == (r + 1) \div 2

\* Number of step() calls the caller makes for one time step.
MaxCalls == 2

\* Number of limiter passes of one step.
limiter_iter_ == 2

\* The sparsity pattern: a chain whose last row is constrained.
sparsity_pattern == PatternOf(1, {NRows - 1})

\* The columns of row i other than i, in storage order.
off_diagonal(i) == Tail(sparsity_pattern[i])

\* The set of the columns of row i other than i.
neighbours(i) == {off_diagonal(i)[k] : k \in 1..Len(off_diagonal(i))}

\* The rows the sweeps visit: constrained rows are skipped.
SweepRows == {i \in Rows : Len(sparsity_pattern[i]) > 1}

\* The directed edges (i, j), j # i, of the rows the sweeps visit.
DirectedEdges == {e \in SweepRows \X Rows : e[2] \in neighbours(e[1])}

\* OfflineData: the lumped mass m_i and the norm |c_ij|.
lumped_mass(i) == F(12)

cij_norm(i, j) == F(1 + (i % 2))

\* The exponent of std::numeric_limits<double>::max() < 2^1024.
MaxExponent == 1024

\* std::numeric_limits<Number>::max(), the default of the argument tau_max.
NumericLimitsMax ==
    [m |-> Pow2(Precision) - 1, e |-> MaxExponent - Precision]

\* d_ij = max(lambda_max(i, j) |c_ij|, lambda_max(j, i) |c_ji|).
compute_dij(i, j) ==
    FMax(FMul(lambda_max[<<i, j>>], cij_norm(i, j)),
         FMul(lambda_max[<<j, i>>], cij_norm(j, i)))

\* The sum of row[j] over the columns cols, in storage order.
RECURSIVE row_sum(_, _)
row_sum(row, cols) ==
    IF cols = <<>> THEN F(0)
    ELSE FAdd(row[Head(cols)], row_sum(row, Tail(cols)))

\* The local step size bound of a row: CFL * m_i / (2 sum_{j # i} d_ij).
row_tau_max(i, d_sum) ==
    FMul(cfl_, FDiv(lumped_mass(i), FMul(F(2), d_sum)))

\* step() is called: the atomic tau_max holds the argument, the other ranks
\* contribute the bound of their own nodes.
StepCall ==
    /\ spc = "ready"
    /\ spc' = "dij"
    /\ tau_max' = [r \in Ranks |->
                      IF r = this_rank THEN tau_max0
                      ELSE FMin(tau_max0, remote_bound[r])]
    /\ stodo' = SweepRows
    /\ limiter_iter' = 0
    /\ restart_needed' = FALSE
    /\ result' = "none"
    /\ calls' = calls + 1
    /\ n_restarts0' = n_restarts_
    /\ n_warnings0' = n_warnings_
    /\ UNCHANGED <<id_violation_strategy_, cfl_, n_restarts_, n_warnings_,
                   tau, tau_max0, lambda_max, remote_bound, dij_matrix_,
                   lij_matrix_, tau_step, U_new, local_tau_max, update_tau,
                   cause>>
    /\ UNCHANGED <<fvars, fEos, pvars, evars>>

\* The d_ij sweep over the strictly upper part of row i (columns j > i).
ComputeDijRow(i) ==
    /\ spc = "dij"
    /\ i \in stodo
    /\ stodo' = stodo \ {i}
    /\ dij_matrix_' = [dij_matrix_ EXCEPT ![i] =
           [j \in Rows |->
               IF j > i /\ j \in neighbours(i)
                  THEN compute_dij(i, j)
                  ELSE dij_matrix_[i][j]]]
    /\ UNCHANGED <<spc, id_violation_strategy_, cfl_, n_restarts_,
                   n_warnings_, tau, tau_max0, tau_max, lambda_max,
                   remote_bound, lij_matrix_, limiter_iter, tau_step, U_new,
                   restart_needed, result, calls, local_tau_max, update_tau,
                   n_restarts0, n_warnings0, cause>>
    /\ UNCHANGED <<fvars, fEos, pvars, evars>>

\* The barrier after the sweep over the upper part.
DijBarrier ==
    /\ spc = "dij"
    /\ stodo = {}
    /\ spc' = "symmetry"
    /\ stodo' = SweepRows
    /\ UNCHANGED <<id_violation_strategy_, cfl_, n_restarts_, n_warnings_,
                   tau, tau_max0, tau_max, lambda_max, remote_bound,
                   dij_matrix_, lij_matrix_, limiter_iter, tau_step, U_new,
                   restart_needed, result, calls, local_tau_max, update_tau,
                   n_restarts0, n_warnings0, cause>>
    /\ UNCHANGED <<fvars, fEos, pvars, evars>>

\* The mutant of symmetric_fill: the lower part is left as it was.
symmetric_fill_skipped(i, j) == dij_matrix_[i][j]

\* The entry of the lower part of row i: the transposed entry.
symmetric_fill(i, j) == dij_matrix_[j][i]

\* The symmetry pass of row i: the lower part is read from the transposed
\* entries, the diagonal is d_ii = - sum_{j # i} d_ij, and the thread
\* tightens the atomic tau_max with the bound of the row.
SymmetryRow(i) ==
    /\ spc = "symmetry"
    /\ i \in stodo
    /\ stodo' = stodo \ {i}
    /\ LET filled == [j \in Rows |->
                         IF j < i /\ j \in neighbours(i)
                            THEN symmetric_fill(i, j)
                            ELSE dij_matrix_[i][j]]
           d_sum == row_sum(filled, off_diagonal(i))
       IN /\ dij_matrix_' = [dij_matrix_ EXCEPT ![i] =
                                [filled EXCEPT ![i] = FNeg(d_sum)]]
          /\ tau_max' = [tau_max EXCEPT ![this_rank] =
                            FMin(@, row_tau_max(i, d_sum))]
    /\ UNCHANGED <<spc, id_violation_strategy_, cfl_, n_restarts_,
                   n_warnings_, tau, tau_max0, lambda_max, remote_bound,
                   lij_matrix_, limiter_iter, tau_step, U_new, restart_needed,
                   result, calls, local_tau_max, update_tau, n_restarts0,
                   n_warnings0, cause>>
    /\ UNCHANGED <<fvars, fEos, pvars, evars>>

\* The barrier after the d_ij sweep, before the reduction of tau_max.
SymmetryBarrier ==
    /\ spc = "symmetry"
    /\ stodo = {}
    /\ spc' = "reduce"
    /\ UNCHANGED <<id_violation_strategy_, cfl_, n_restarts_, n_warnings_,
                   tau, tau_max0, tau_max, lambda_max, remote_bound,
                   dij_matrix_, lij_matrix_, limiter_iter, tau_step, U_new,
                   restart_needed, result, stodo, calls, local_tau_max,
                   update_tau, n_restarts0, n_warnings0, cause>>
    /\ UNCHANGED <<fvars, fEos, pvars, evars>>


\* The minimum of t[r] over the non-empty set rs of ranks.
RECURSIVE min_over(_, _)
min_over(t, rs) ==
    LET r == CHOOSE x \in rs : TRUE
    IN IF rs = {r} THEN t[r] ELSE FMin(t[r], min_over(t, rs \ {r}))

\* The mutant of reduction_group: the ranks of the ensemble of rank r.
ensemble_group(r) == {x \in Ranks : ensemble_of(x) = ensemble_of(r)}

\* The ranks of the communicator tau_max is reduced over: all of them.
reduction_group(r) == Ranks

\* min_reduce(tau_max): every rank receives the minimum over the communicator.
TauMaxReduce ==
    /\ spc = "reduce"
    /\ spc' = "choose"
    /\ local_tau_max' = tau_max
    /\ tau_max' = [r \in Ranks |-> min_over(tau_max, reduction_group(r))]
    /\ UNCHANGED <<id_violation_strategy_, cfl_, n_restarts_, n_warnings_,
                   tau, tau_max0, lambda_max, remote_bound, dij_matrix_,
                   lij_matrix_, limiter_iter, tau_step, U_new, restart_needed,
                   result, stodo, calls, update_tau, n_restarts0, n_warnings0,
                   cause>>
    /\ UNCHANGED <<fvars, fEos, pvars, evars>>

\* The mutant of chosen_tau: a prescribed tau is capped by tau_max.
chosen_tau_capped(r) == IF tau = F(0) THEN tau_max[r] ELSE FMin(tau, tau_max[r])

\* The step size of rank r: tau_max if the argument tau is 0, else tau.
chosen_tau(r) == IF tau = F(0) THEN tau_max[r] ELSE tau

\* The mutant of cfl_violated: the prescribed tau is never refused.
cfl_unchecked(t) == FALSE

\* The prescribed step size exceeds the computed tau_max.
cfl_violated(t) == FGt(t, tau_max[this_rank])

\* The mutant of raises_restart: every strategy raises.
raises_always == TRUE

\* The configured strategy answers a violation with a Restart.
raises_restart == id_violation_strategy_ = "raise_exception"

\* The step size is chosen and admitted: it does not exceed tau_max, or the
\* strategy is to warn and continue.
ChooseTau ==
    /\ spc = "choose"
    /\ tau_step' = chosen_tau(this_rank)
    /\ ~cfl_violated(tau_step') \/ ~raises_restart
    /\ restart_needed' = cfl_violated(tau_step')
    /\ spc' = "limiter"
    /\ stodo' = SweepRows
    /\ UNCHANGED <<id_violation_strategy_, cfl_, n_restarts_, n_warnings_,
                   tau, tau_max0, tau_max, lambda_max, remote_bound,
                   dij_matrix_, lij_matrix_, limiter_iter, U_new, result,
                   calls, local_tau_max, update_tau, n_restarts0, n_warnings0,
                   cause>>
    /\ UNCHANGED <<fvars, fEos, pvars, evars>>

\* The prescribed step size exceeds tau_max and the strategy is
\* raise_exception: Restart is raised, the call returns nothing.
RefuseTau ==
    /\ spc = "choose"
    /\ tau_step' = chosen_tau(this_rank)
    /\ cfl_violated(tau_step')
    /\ raises_restart
    /\ n_restarts_' = n_restarts_ + 1
    /\ spc' = "restart"
    /\ UNCHANGED <<id_violation_strategy_, cfl_, n_warnings_, tau, tau_max0,
                   tau_max, lambda_max, remote_bound, dij_matrix_,
                   lij_matrix_, limiter_iter, U_new, restart_needed, result,
                   stodo, calls, local_tau_max, update_tau, n_restarts0,
                   n_warnings0, cause>>
    /\ UNCHANGED <<fvars, fEos, pvars, evars>>

\* The limiter coefficients the line search returns, in [0, 1].
LimiterInputs == {FHalf, F(1)}

\* The limiter coefficients of one sweep: one value for the edges (i, j) with
\* i < j and one for the edges with i > j.
LimiterTables ==
    {[e \in DirectedEdges |-> IF e[1] < e[2] THEN a ELSE b] :
        a \in LimiterInputs, b \in LimiterInputs}

\* The limiter sweep: one l_ij per column of every row visited.  The rows
\* are written by different threads and no row reads another one, so the
\* sweep is taken as one step.
LimiterSweep ==
    /\ spc = "limiter"
    /\ stodo # {}
    /\ stodo' = {}
    /\ \E l \in LimiterTables :
           lij_matrix_' = [i \in Rows |-> [j \in Rows |->
               IF <<i, j>> \in DirectedEdges THEN l[<<i, j>>]
               ELSE lij_matrix_[i][j]]]
    /\ UNCHANGED <<spc, id_violation_strategy_, cfl_, n_restarts_,
                   n_warnings_, tau, tau_max0, tau_max, lambda_max,
                   remote_bound, dij_matrix_, limiter_iter, tau_step, U_new,
                   restart_needed, result, calls, local_tau_max, update_tau,
                   n_restarts0, n_warnings0, cause>>
    /\ UNCHANGED <<fvars, fEos, pvars, evars>>

\* l_ij = l_ji = min(l_ij, l_ji).
symmetrized_lij(i, j) == FMin(lij_matrix_[i][j], lij_matrix_[j][i])

\* The barrier after the limiter sweep: the coefficients are symmetrized and
\* the limited increment is applied; a further pass follows until
\* limiter_iter_ passes are done.
LimiterApply ==
    /\ spc = "limiter"
    /\ stodo = {}
    /\ lij_matrix_' = [i \in Rows |-> [j \in Rows |->
           IF i \in SweepRows /\ j \in neighbours(i)
              THEN symmetrized_lij(i, j)
              ELSE lij_matrix_[i][j]]]
    /\ limiter_iter' = limiter_iter + 1
    /\ IF limiter_iter' < limiter_iter_
          THEN spc' = "limiter" /\ stodo' = SweepRows
          ELSE spc' = "update" /\ stodo' = {}
    /\ UNCHANGED <<id_violation_strategy_, cfl_, n_restarts_, n_warnings_,
                   tau, tau_max0, tau_max, lambda_max, remote_bound,
                   dij_matrix_, tau_step, U_new, restart_needed, result,
                   calls, local_tau_max, update_tau, n_restarts0, n_warnings0,
                   cause>>
    /\ UNCHANGED <<fvars, fEos, pvars, evars>>


\* The state an invariant domain preserving update produces, and the states
\* an update without that guarantee may produce as well: a vanishing shifted
\* internal energy, a negative one, and a negative density.
InDomainState == <<F(1), F(0), F(2)>>

OutOfDomainStates ==
    {<<F(1), F(0), F(1)>>, <<F(1), F(0), F(0)>>, <<F(-1), F(0), F(2)>>}

\* d_ij of an edge (i, j) in either direction.
graph_viscosity(i, j) ==
    IF i < j THEN compute_dij(i, j) ELSE compute_dij(j, i)

\* The step size bound of the CFL condition over the rows of all ranks.
cfl_tau_max ==
    LET bound == [r \in Ranks |->
            IF r = this_rank
               THEN min_over(
                        [i \in SweepRows |->
                            row_tau_max(i, row_sum(
                                [j \in Rows |-> graph_viscosity(i, j)],
                                off_diagonal(i)))],
                        SweepRows)
               ELSE remote_bound[r]]
    IN min_over(bound, Ranks)

\* The update is invariant domain preserving: the step size does not exceed
\* the bound of the CFL condition for a CFL number of 1, that is
\* cfl_ * tau_step <= cfl_tau_max.
idp_guaranteed == FGe(cfl_tau_max, FMul(cfl_, tau_step))

\* The low-order update and the limited high-order update with step size
\* tau_step.  Constrained rows keep their state.
Update ==
    /\ spc = "update"
    /\ \E bad \in {b \in SUBSET SweepRows : Cardinality(b) <= 1} :
       \E s \in OutOfDomainStates :
           /\ idp_guaranteed => bad = {}
           /\ U_new' = [i \in Rows |-> IF i \in bad THEN s
                                       ELSE InDomainState]
    /\ update_tau' = tau_step
    /\ spc' = "verify"
    /\ UNCHANGED <<id_violation_strategy_, cfl_, n_restarts_, n_warnings_,
                   tau, tau_max0, tau_max, lambda_max, remote_bound,
                   dij_matrix_, lij_matrix_, limiter_iter, tau_step,
                   restart_needed, result, stodo, calls, local_tau_max,
                   n_restarts0, n_warnings0, cause>>
    /\ UNCHANGED <<fvars, fEos, pvars, evars>>

\* The verification of the new state: some row is not admissible.
id_violation == \E i \in SweepRows : ~is_admissible(<<U_new[i]>>)

\* No violation was detected: the step is accepted and tau is returned.
Accept ==
    /\ spc = "verify"
    /\ ~(restart_needed \/ id_violation)
    /\ spc' = "accepted"
    /\ result' = tau_step
    /\ UNCHANGED <<id_violation_strategy_, cfl_, n_restarts_, n_warnings_,
                   tau, tau_max0, tau_max, lambda_max, remote_bound,
                   dij_matrix_, lij_matrix_, limiter_iter, tau_step, U_new,
                   restart_needed, stodo, calls, local_tau_max, update_tau,
                   n_restarts0, n_warnings0, cause>>
    /\ UNCHANGED <<fvars, fEos, pvars, evars>>

\* A violation was detected and the strategy is warn: it is counted and the
\* step is accepted all the same.
Warn ==
    /\ spc = "verify"
    /\ restart_needed \/ id_violation
    /\ ~raises_restart
    /\ restart_needed' = TRUE
    /\ n_warnings_' = n_warnings_ + 1
    /\ spc' = "accepted"
    /\ result' = tau_step
    /\ UNCHANGED <<id_violation_strategy_, cfl_, n_restarts_, tau, tau_max0,
                   tau_max, lambda_max, remote_bound, dij_matrix_,
                   lij_matrix_, limiter_iter, tau_step, U_new, stodo, calls,
                   local_tau_max, update_tau, n_restarts0, n_warnings0,
                   cause>>
    /\ UNCHANGED <<fvars, fEos, pvars, evars>>

\* A violation was detected and the strategy is raise_exception: Restart is
\* raised, the call returns nothing.
Raise ==
    /\ spc = "verify"
    /\ restart_needed \/ id_violation
    /\ raises_restart
    /\ restart_needed' = TRUE
    /\ n_restarts_' = n_restarts_ + 1
    /\ spc' = "restart"
    /\ UNCHANGED <<id_violation_strategy_, cfl_, n_warnings_, tau, tau_max0,
                   tau_max, lambda_max, remote_bound, dij_matrix_,
                   lij_matrix_, limiter_iter, tau_step, U_new, result, stodo,
                   calls, local_tau_max, update_tau, n_restarts0, n_warnings0,
                   cause>>
    /\ UNCHANGED <<fvars, fEos, pvars, evars>>

\* The caller catches Restart and retries the same step with tau = tau_max.
Retry ==
    /\ spc = "restart"
    /\ calls < MaxCalls
    /\ cause' = IF restart_needed THEN "id" ELSE "cfl"
    /\ tau' = tau_max[this_rank]
    /\ spc' = "ready"
    /\ UNCHANGED <<id_violation_strategy_, cfl_, n_restarts_, n_warnings_,
                   tau_max0, tau_max, lambda_max, remote_bound, dij_matrix_,
                   lij_matrix_, limiter_iter, tau_step, U_new, restart_needed,
                   result, stodo, calls, local_tau_max, update_tau,
                   n_restarts0, n_warnings0>>
    /\ UNCHANGED <<fvars, fEos, pvars, evars>>

\* The step was accepted: the caller calls step() for the next time step and
\* passes as the vector to write a buffer that holds admissible states.
Advance ==
    /\ spc = "accepted"
    /\ calls < MaxCalls
    /\ cause' = "none"
    /\ spc' = "ready"
    /\ U_new' = [i \in Rows |-> InDomainState]
    /\ UNCHANGED <<id_violation_strategy_, cfl_, n_restarts_, n_warnings_,
                   tau, tau_max0, tau_max, lambda_max, remote_bound,
                   dij_matrix_, lij_matrix_, limiter_iter, tau_step,
                   restart_needed, result, stodo, calls, local_tau_max,
                   update_tau, n_restarts0, n_warnings0>>
    /\ UNCHANGED <<fvars, fEos, pvars, evars>>

\* Inputs of the step.
LambdaInputs == {F(1), F(2)}

\* The wave speed estimates: one value for the edges (i, j) with i < j and
\* one for the edges with i > j.
LambdaTables ==
    {[e \in DirectedEdges |-> IF e[1] < e[2] THEN a ELSE b] :
        a \in LambdaInputs, b \in LambdaInputs}

CflInputs == {FHalf, F(2)}

TauInputs == {F(0), F(1), F(100)}

TauMaxInputs == {NumericLimitsMax, F(2)}

RemoteBounds == {[r \in Ranks |-> F(24)], [r \in Ranks |-> F(r)]}

InitStep ==
    /\ PureIdle
    /\ PrecomputeIdle
    /\ OthersIdle
    /\ fEos = <<F(0), F(1), F(0), F(0)>>
    /\ spc = "ready"
    /\ id_violation_strategy_ \in {"warn", "raise_exception"}
    /\ cfl_ \in CflInputs
    /\ n_restarts_ = 0
    /\ n_warnings_ = 0
    /\ tau \in TauInputs
    /\ tau_max0 \in TauMaxInputs
    /\ tau_max = [r \in Ranks |-> tau_max0]
    /\ lambda_max \in LambdaTables
    /\ remote_bound \in RemoteBounds
    /\ dij_matrix_ = [i \in Rows |-> [j \in Rows |-> F(0)]]
    /\ lij_matrix_ = [i \in Rows |-> [j \in Rows |-> F(0)]]
    /\ limiter_iter = 0
    /\ tau_step = F(0)
    /\ U_new = [i \in Rows |-> InDomainState]
    /\ restart_needed = FALSE
    /\ result = "none"
    /\ stodo = {}
    /\ calls = 0
    /\ local_tau_max = tau_max
    /\ update_tau = F(0)
    /\ n_restarts0 = 0
    /\ n_warnings0 = 0
    /\ cause = "none"

NextStep ==
    \/ StepCall
    \/ \E i \in Rows : ComputeDijRow(i)
    \/ DijBarrier
    \/ \E i \in Rows : SymmetryRow(i)
    \/ SymmetryBarrier
    \/ TauMaxReduce
    \/ ChooseTau
    \/ RefuseTau
    \/ LimiterSweep
    \/ LimiterApply
    \/ Update
    \/ Accept
    \/ Warn
    \/ Raise
    \/ Retry
    \/ Advance

SpecStep == InitStep /\ [][NextStep]_vars

-----------------------------------------------------------------------------
(* Claims about the step controller (checked under SpecStep)                *)

\* The positions of a call of step() after the step size was admitted.
Updating == {"limiter", "update", "verify", "accepted"}

\* Every row of the new state passes is_admissible.
NewStateAdmissible == \A i \in Rows : is_admissible(<<U_new[i]>>)

\* Every row of the new state has rho > 0 and a shifted internal energy >= 0.
NewStateSpecAdmissible == \A i \in Rows : LaneSpecAdmissible(U_new[i])

\* With raise_exception a step size above tau_max is never used: the call
\* ends in Restart, raised once, and returns nothing.
RestartOnExcessiveTau ==
    /\ (id_violation_strategy_ = "raise_exception" /\ spc \in Updating)
           => FGe(tau_max[this_rank], tau_step)
    /\ (spc = "restart" /\ ~restart_needed)
           => /\ id_violation_strategy_ = "raise_exception"
              /\ FGt(tau_step, tau_max[this_rank])
              /\ n_restarts_ = n_restarts0 + 1
              /\ result = "none"

\* The retry with tau = tau_max of a call refused for its step size raises no
\* Restart and, once it returns, has left an admissible state.
RetrySucceeds ==
    cause = "cfl" =>
        /\ spc # "restart"
        /\ spc = "accepted" => /\ NewStateAdmissible
                               /\ n_restarts_ = n_restarts0
                               /\ result = tau

C2_Original == spc = "accepted" => NewStateSpecAdmissible

\* C2 amended: after every accepted step that counted no warning (under
\* raise_exception: after every accepted step), every owned node has rho > 0
\* and a shifted internal energy >= 0; with the strategy warn a step that
\* counted a warning is accepted although a node may violate both.
C2_AdmissibleUnlessWarned ==
    (spc = "accepted" /\ (id_violation_strategy_ = "raise_exception"
                              \/ n_warnings_ = n_warnings0))
        => NewStateSpecAdmissible

\* A step without the guarantee of the CFL condition was verified and
\* accepted under raise_exception.
C2_Witness ==
    /\ spc = "accepted"
    /\ id_violation_strategy_ = "raise_exception"
    /\ ~idp_guaranteed
    /\ NewStateSpecAdmissible

\* C3: with the strategy warn no Restart is ever raised, and a call that
\* detects an invariant domain violation returns its step size, increments
\* n_warnings and leaves n_restarts unchanged.
C3_WarnNeverRestarts ==
    id_violation_strategy_ = "warn" =>
        /\ spc # "restart"
        /\ n_restarts_ = n_restarts0
        /\ (spc = "accepted" /\ ~NewStateAdmissible)
               => /\ result = tau_step
                  /\ n_warnings_ = n_warnings0 + 1

\* The second step in a row that detected a violation under warn.
C3_Witness ==
    /\ id_violation_strategy_ = "warn"
    /\ spc = "accepted"
    /\ ~NewStateAdmissible
    /\ n_warnings_ = MaxCalls

\* C4: step() performs the update with tau_max if its argument tau is 0 and
\* with tau otherwise, tau_max being the minimum of the argument tau_max and
\* the step size computed from the CFL condition; it returns the step size
\* of the update.
C4_StepSize ==
    spc = "accepted" =>
        /\ result = update_tau
        /\ update_tau = IF tau = F(0) THEN FMin(tau_max0, cfl_tau_max)
                        ELSE tau

\* Accepted steps of both kinds: the CFL bound below the argument tau_max,
\* and a prescribed tau.
C4_Witness ==
    /\ spc = "accepted"
    /\ \/ tau = F(0) /\ FGt(tau_max0, result)
       \/ tau # F(0) /\ FGt(tau, tau_max[this_rank])

\* C5: after a completed step d_ij = d_ji and l_ij = l_ji for every edge.
C5_SymmetricMatrices ==
    spc = "accepted" =>
        \A e \in DirectedEdges :
            /\ dij_matrix_[e[1]][e[2]] = dij_matrix_[e[2]][e[1]]
            /\ lij_matrix_[e[1]][e[2]] = lij_matrix_[e[2]][e[1]]

\* A completed step whose wave speeds differ in the two directions of an
\* edge.
C5_Witness ==
    /\ spc = "accepted"
    /\ \E e \in DirectedEdges :
           FMul(lambda_max[e], cij_norm(e[1], e[2]))
               # FMul(lambda_max[<<e[2], e[1]>>], cij_norm(e[2], e[1]))

\* The positions of a call of step() after the reduction of tau_max.
Reduced == {"choose", "restart"} \cup Updating

\* C6: after the reduction every rank of the global communicator holds the
\* same tau_max, the minimum of the local values of all ranks, and so all
\* ranks choose the same step size.
C6_GlobalMinimum ==
    spc \in Reduced =>
        \A r \in Ranks :
            /\ tau_max[r] = tau_max[this_rank]
            /\ \A q \in Ranks : FGe(local_tau_max[q], tau_max[r])
            /\ \E q \in Ranks : local_tau_max[q] = tau_max[r]
            /\ (IF tau = F(0) THEN tau_max[r] ELSE tau)
                   = (IF tau = F(0) THEN tau_max[this_rank] ELSE tau)

\* After a reduction the minimum of some ensemble is above the global one.
C6_Witness ==
    /\ spc = "choose"
    /\ \E r \in Ranks :
           FGt(min_over(local_tau_max, ensemble_group(r)), tau_max[r])

-----------------------------------------------------------------------------
(* Claims about the surrogate functions (checked under SpecPure)            *)

\* C11 as stated: for every admissible state U and every pressure p the
\* equation of state returns, surrogate_pressure(U, surrogate_gamma(U, p))
\* equals p.
C11_SurrogateRoundTrip ==
    fpc = "surrogate" =>
        \A k \in 1..Len(fU) :
            LaneStrictlyAdmissible(fU[k]) => fSurr[k][3] = fSurr[k][1]

\* The scale of the rounding errors of the round trip: gamma * rho_e.
surrogate_scale(k) == FMul(fSurr[k][2], internal_energy(fU[k]))

\* C11 where it holds: for an admissible state and a pressure p >= -pinf the
\* round trip returns p up to rounding, within 2 units in the last place of
\* gamma * rho_e (gamma = 1 + p / rho_e is rounded).
C11_HoldsForPressureAbovePinf ==
    fpc = "surrogate" =>
        \A k \in 1..Len(fU) :
            (/\ LaneStrictlyAdmissible(fU[k])
             /\ FGe(FAdd(fSurr[k][1], eos_interpolation_pinfty), F(0)))
                => WithinUlps(fSurr[k][3], fSurr[k][1], 2, surrogate_scale(k))

\* An admissible state for which the van der Waals gas returns a negative
\* pressure: the surrogate gamma is 1 and the surrogate pressure is 0.
C11_Witness ==
    /\ fpc = "surrogate"
    /\ \E k \in 1..Len(fU) :
           /\ LaneStrictlyAdmissible(fU[k])
           /\ FGt(F(0), fSurr[k][1])
           /\ fSurr[k][2] = F(1)
           /\ fSurr[k][3] = F(0)

-----------------------------------------------------------------------------
(* HyperbolicSystemView::apply_boundary_conditions, dim = 1                 *)

\* floor(sqrt(n)) of a natural number.
RECURSIVE ISqrt(_)
ISqrt(n) ==
    IF n < 2 THEN n
    ELSE LET r == 2 * ISqrt(n \div 4)
         IN IF (r + 1) * (r + 1) <= n THEN r + 1 ELSE r

\* std::sqrt of x >= 0, correctly rounded: the significand is scaled to an
\* even exponent and by 4^(Precision + 1), and the remainder of the integer
\* root is kept as a sticky bit.
FSqrt(x) ==
    IF x.m = 0 THEN FZero
    ELSE LET odd == x.e % 2 # 0
             M == (IF odd THEN 2 * x.m ELSE x.m) * Pow2(2 * (Precision + 1))
             E == (IF odd THEN x.e - 1 ELSE x.e) - 2 * (Precision + 1)
             s == ISqrt(M)
             sticky == IF s * s = M THEN 0 ELSE 1
         IN Round(2 * s + sticky, 1, (E \div 2) - 1)

\* The element of a singleton set.  A local "const auto v = x;" whose value
\* is used several times is written Only({e(v) : v \in {x}}): x is evaluated
\* once.
Only(S) == CHOOSE r \in S : TRUE

surrogate_speed_of_sound(U, gamma) ==
    LET b == eos_interpolation_b
        pinf == eos_interpolation_pinfty
        q == eos_interpolation_q
    IN Only({FSqrt(positive_part(
                 FMul(FDiv(FSub(FSub(rho_e, FMul(rho, q)),
                                FMul(pinf, covolume)),
                           FMul(FMul(covolume, covolume), rho)),
                      FMul(gamma, FSub(gamma, F(1)))))) :
             rho \in {density(U)},
             rho_e \in {internal_energy(U)},
             covolume \in {FSub(F(1), FMul(b, density(U)))}})

\* vn = m * normal / rho
normal_velocity(U, normal) == FDiv(FMul(momentum(U), normal), density(U))

\* 2. * a / (gamma - 1.) * covolume of one state with pressure p.
riemann_term(U, p) ==
    Only({Only({FMul(FDiv(FMul(F(2), a), FSub(gamma, F(1))),
                     FSub(F(1), FMul(eos_interpolation_b, density(U)))) :
                a \in {surrogate_speed_of_sound(U, gamma)}}) :
          gamma \in {surrogate_gamma(U, p)}})

\* The state the reconstruction returns is built with real powers
\* (ryujin::pow); its components are kept as terms naming the component
\* replaced and the two characteristics the state is reconstructed from.
reconstructed_state(component, R_1, R_2) ==
    LET t(name) == [term |-> name, component |-> component,
                    R_1 |-> R_1, R_2 |-> R_2]
    IN <<t("rho_new"), t("m_new"), t("E_new")>>

\* prescribe_riemann_characteristic<component>(U, p, U_bar, p_bar, normal):
\* the characteristics, whether Assert(R_2 >= R_1) holds, and U_new.
prescribe_riemann_characteristic(component, U, p, U_bar, p_bar, normal) ==
    Only({[R_1 |-> R_1, R_2 |-> R_2, asserted |-> FGe(R_2, R_1),
           U_new |-> reconstructed_state(component, R_1, R_2)] :
          R_1 \in {IF component = 1
                      THEN Only({FSub(vn_bar, t) :
                                 vn_bar \in {normal_velocity(U_bar, normal)},
                                 t \in {riemann_term(U_bar, p_bar)}})
                      ELSE Only({FSub(vn, t) :
                                 vn \in {normal_velocity(U, normal)},
                                 t \in {riemann_term(U, p)}})},
          R_2 \in {IF component = 2
                      THEN Only({FAdd(vn_bar, t) :
                                 vn_bar \in {normal_velocity(U_bar, normal)},
                                 t \in {riemann_term(U_bar, p_bar)}})
                      ELSE Only({FAdd(vn, t) :
                                 vn \in {normal_velocity(U, normal)},
                                 t \in {riemann_term(U, p)}})}})

\* The mutant of dirichlet_momentum_result: the whole state is replaced.
dirichlet_momentum_result_full(U, data) == data

\* id == Boundary::dirichlet_momentum
dirichlet_momentum_result(U, data) ==
    <<U[1], momentum(data), U[3]>>

\* id == Boundary::slip: m -= 1. * (m * normal) * normal
slip_result(U, normal) ==
    LET m == momentum(U)
    IN <<U[1], FSub(m, FMul(FMul(F(1), FMul(m, normal)), normal)), U[3]>>

\* id == Boundary::no_slip
no_slip_result(U) == <<U[1], F(0), U[3]>>

\* vn < -a
supersonic_inflow(vn, a) == FGt(FNeg(a), vn)

\* The mutant of subsonic_inflow: vn < 0. instead of vn <= 0.
subsonic_inflow_strict(vn, a) == FGe(vn, FNeg(a)) /\ FGt(F(0), vn)

\* vn >= -a && vn <= 0.
subsonic_inflow(vn, a) == FGe(vn, FNeg(a)) /\ FGe(F(0), vn)

\* vn > 0. && vn <= a
subsonic_outflow(vn, a) == FGt(vn, F(0)) /\ FGe(a, vn)

pressure_of(U) ==
    eos_pressure(density(U), FDiv(internal_energy(U), density(U)))

\* The surrogate speed of sound the dynamic boundary computes for U.
speed_of(U) ==
    Only({Only({surrogate_speed_of_sound(U, gamma) :
                gamma \in {surrogate_gamma(U, p)}}) :
          p \in {pressure_of(U)}})

\* The three consecutive if statements of the dynamic boundary, given the
\* results c1, c2, c3 of their conditions: the result, the branches that
\* ran, the characteristics of every reconstruction, and whether the Assert
\* of every reconstruction held.
dynamic_branches(U, normal, data, c1, c2, c3) ==
    Only({[result |-> IF c3 THEN out.U_new
                      ELSE IF c2 THEN in.U_new
                      ELSE IF c1 THEN data ELSE U,
           branches |-> (IF c1 THEN <<"supersonic_inflow">> ELSE <<>>)
                        \o (IF c2 THEN <<"subsonic_inflow">> ELSE <<>>)
                        \o (IF c3 THEN <<"subsonic_outflow">> ELSE <<>>),
           R |-> (IF c2 THEN <<<<in.R_1, in.R_2>>>> ELSE <<>>)
                 \o (IF c3 THEN <<<<out.R_1, out.R_2>>>> ELSE <<>>),
           asserted |-> (c2 => in.asserted) /\ (c3 => out.asserted)] :
          in \in {IF c2 THEN prescribe_riemann_characteristic(
                                 2, data, pressure_of(data),
                                 U, pressure_of(U), normal)
                        ELSE <<>>},
          out \in {IF c3 THEN prescribe_riemann_characteristic(
                                  1, U, pressure_of(U),
                                  data, pressure_of(data), normal)
                         ELSE <<>>}})

\* id == Boundary::dynamic
dynamic_result(U, normal, data) ==
    Only({dynamic_branches(U, normal, data,
                           supersonic_inflow(vn, a),
                           subsonic_inflow(vn, a),
                           subsonic_outflow(vn, a)) :
          vn \in {normal_velocity(U, normal)},
          a \in {speed_of(U)}})

\* The boundary ids the function distinguishes; "other" is any id it does
\* not know.
BoundaryIds ==
    {"dirichlet", "dirichlet_momentum", "slip", "no_slip", "dynamic", "other"}

\* States with rho = 1 and gamma (gamma - 1) rho_e / rho a perfect square or
\* not, at rest, sub- and supersonic, in both directions.
BoundaryStates ==
    {<<F(1), F(0), F(2)>>,
     <<F(1), F(1), Round(5, 2, 0)>>, <<F(1), F(-1), Round(5, 2, 0)>>,
     <<F(1), F(2), F(4)>>, <<F(1), F(-2), F(4)>>,
     <<F(1), F(1), F(9)>>,
     <<F(1), F(0), Round(1, 8, 0)>>, <<F(1), Round(1, 8, 0), Round(1, 8, 0)>>}

\* The states get_dirichlet_data() may return.
DirichletStates ==
    {<<F(1), F(0), F(2)>>, <<F(2), F(1), F(9)>>, <<F(1), F(32), F(576)>>}

Normals == {F(1), F(-1)}

InitBoundary ==
    /\ PureIdle
    /\ PrecomputeIdle
    /\ StepIdle
    /\ ConfigIdle /\ CflIdle /\ VacuumIdle /\ ThreadsIdle /\ LateIdle
    /\ fEos = <<F(0), F(0), F(0), F(0)>>
    /\ bpc = "input"
    /\ bbuild \in {"debug", "release"}
    /\ bid \in BoundaryIds
    /\ bU \in BoundaryStates
    /\ bnormal \in Normals
    /\ bdata \in DirichletStates
    /\ bresult = <<>>
    /\ bbranches = <<>>
    /\ bR = <<>>

bframe ==
    UNCHANGED <<fvars, fEos, pvars, svars, cvars, kvars, vvars, tvars, wvars,
                bbuild, bid, bU, bnormal, bdata>>

\* apply_boundary_conditions with one of the four simple ids.
ApplySimpleBoundary ==
    /\ bpc = "input"
    /\ bid \in {"dirichlet", "dirichlet_momentum", "slip", "no_slip"}
    /\ bresult' = CASE bid = "dirichlet" -> bdata
                    [] bid = "dirichlet_momentum" ->
                           dirichlet_momentum_result(bU, bdata)
                    [] bid = "slip" -> slip_result(bU, bnormal)
                    [] bid = "no_slip" -> no_slip_result(bU)
    /\ bpc' = "returned"
    /\ UNCHANGED <<bbranches, bR>>
    /\ bframe

\* apply_boundary_conditions with id dynamic.  Assert is compiled in in
\* debug builds only; there a failed Assert aborts the program.
ApplyDynamicBoundary ==
    /\ bpc = "input"
    /\ bid = "dynamic"
    /\ LET d == dynamic_result(bU, bnormal, bdata)
       IN /\ bbranches' = d.branches
          /\ bR' = d.R
          /\ IF bbuild = "debug" /\ ~d.asserted
                THEN bpc' = "aborted" /\ bresult' = <<>>
                ELSE bpc' = "returned" /\ bresult' = d.result
    /\ bframe

\* apply_boundary_conditions with any other id:
\* AssertThrow(false, ExcNotImplemented()).
ApplyUnknownBoundary ==
    /\ bpc = "input"
    /\ bid = "other"
    /\ bpc' = "thrown"
    /\ UNCHANGED <<bresult, bbranches, bR>>
    /\ bframe

NextBoundary ==
    ApplySimpleBoundary \/ ApplyDynamicBoundary \/ ApplyUnknownBoundary

SpecBoundary == InitBoundary /\ [][NextBoundary]_vars

\* C12: with id slip, no_slip or dirichlet_momentum the result has the
\* density and the total energy of the input U, and its momentum is
\* m - (m.n) n (which has no normal component), zero, or the momentum of the
\* Dirichlet data; with id dirichlet the result is the Dirichlet data.
C12_MomentumOnly ==
    bpc = "returned" =>
        /\ bid \in {"slip", "no_slip", "dirichlet_momentum"} =>
               /\ density(bresult) = density(bU)
               /\ total_energy(bresult) = total_energy(bU)
        /\ bid = "slip" =>
               /\ momentum(bresult) =
                      FSub(momentum(bU),
                           FMul(FMul(momentum(bU), bnormal), bnormal))
               /\ FMul(momentum(bresult), bnormal) = F(0)
        /\ bid = "no_slip" => momentum(bresult) = F(0)
        /\ bid = "dirichlet_momentum" => momentum(bresult) = momentum(bdata)
        /\ bid = "dirichlet" => bresult = bdata

\* A dirichlet_momentum call returned for data that differs from U in
\* density, momentum and total energy.
C12_Witness ==
    /\ bpc = "returned"
    /\ bid = "dirichlet_momentum"
    /\ density(bdata) # density(bU)
    /\ total_energy(bdata) # total_energy(bU)
    /\ momentum(bdata) # momentum(bU)
    /\ momentum(bresult) = momentum(bdata)

\* The normal velocity and the surrogate speed of sound of the call's U.
call_vn == normal_velocity(bU, bnormal)

call_a == speed_of(bU)

\* The number of the case of the dynamic boundary the pair (vn, a) is in:
\* the set of all cases whose condition holds.
dynamic_cases ==
    {c \in 1..4 :
        \/ c = 1 /\ FCmp(call_vn, FNeg(call_a)) < 0
        \/ c = 2 /\ FCmp(call_vn, FNeg(call_a)) >= 0 /\ FCmp(call_vn, F(0)) <= 0
        \/ c = 3 /\ FCmp(call_vn, F(0)) > 0 /\ FCmp(call_vn, call_a) <= 0
        \/ c = 4 /\ FCmp(call_vn, call_a) > 0}

is_reconstruction(U, component) ==
    \A k \in 1..3 : U[k].component = component

\* C13: for id dynamic (a >= 0) exactly one of the four cases holds for vn
\* and a, exactly the branch of that case runs, and a call that returns
\* gives the Dirichlet state (vn < -a), a reconstruction that replaces R_2
\* (-a <= vn <= 0) or R_1 (0 < vn <= a), or U unchanged (vn > a).
C13_FourCases ==
    (bid = "dynamic" /\ bpc # "input") =>
        /\ FGe(call_a, F(0))
        /\ Cardinality(dynamic_cases) = 1
        /\ 1 \in dynamic_cases =>
               /\ bbranches = <<"supersonic_inflow">>
               /\ bpc = "returned" /\ bresult = bdata
        /\ 2 \in dynamic_cases =>
               /\ bbranches = <<"subsonic_inflow">>
               /\ bpc = "returned" => is_reconstruction(bresult, 2)
        /\ 3 \in dynamic_cases =>
               /\ bbranches = <<"subsonic_outflow">>
               /\ bpc = "returned" => is_reconstruction(bresult, 1)
        /\ 4 \in dynamic_cases =>
               /\ bbranches = <<>>
               /\ bpc = "returned" /\ bresult = bU

\* A dynamic call with vn = 0 (the closed end of the subsonic inflow case)
\* returned a reconstruction.
C13_Witness ==
    /\ bid = "dynamic"
    /\ bpc = "returned"
    /\ call_vn = F(0)
    /\ bbranches = <<"subsonic_inflow">>
    /\ is_reconstruction(bresult, 2)

\* Every case of the dynamic boundary is taken, the closed ends vn = -a and
\* vn = a included.
C13_WitnessSupersonicInflow ==
    bid = "dynamic" /\ bpc = "returned" /\ dynamic_cases = {1}

C13_WitnessInflowEnd ==
    bid = "dynamic" /\ bpc = "returned" /\ call_vn = FNeg(call_a)
    /\ call_a # F(0)

C13_WitnessOutflowEnd ==
    bid = "dynamic" /\ bpc = "returned" /\ call_vn = call_a /\ call_a # F(0)

C13_WitnessSupersonicOutflow ==
    bid = "dynamic" /\ bpc = "returned" /\ dynamic_cases = {4}

\* C14: a reconstruction with R_2 < R_1 never returns a state to the caller.
C14_InvalidNeverReturned ==
    (bid = "dynamic" /\ \E k \in 1..Len(bR) : FGt(bR[k][1], bR[k][2]))
        => bpc # "returned"

\* A release build returned the state reconstructed from R_2 < R_1.
C14_Witness ==
    /\ bid = "dynamic"
    /\ bbuild = "release"
    /\ bpc = "returned"
    /\ \E k \in 1..Len(bR) : FGt(bR[k][1], bR[k][2])
    /\ \E c \in {1, 2} : is_reconstruction(bresult, c)
           /\ FGt(bresult[1].R_1, bresult[1].R_2)

\* The debug build aborts in the same call.
C14_WitnessDebugAbort ==
    bid = "dynamic" /\ bbuild = "debug" /\ bpc = "aborted"

-----------------------------------------------------------------------------
(* Start-up: EquationDispatch::dispatch, the HyperbolicSystem constructor's *)
(* populate_functions and InitialValues::parse_parameters_callback          *)

\* The names the registered drivers (Dispatch<Description, Number>) answer
\* to, the names in equation_of_state_list_ and in initial_state_list_.
RegisteredEquations == {"euler aeos", "shallow water"}

EquationOfStateList == {"van der waals", "polytropic gas"}

InitialStateList == {"uniform", "contrast"}

\* The inclusive range of the dimensions dispatch accepts.
MinDimension == 1

MaxDimension == 3

Range(seq) == {seq[k] : k \in 1..Len(seq)}

\* The values a parameter file may hold.
DimensionInputs == (MinDimension - 1)..(MaxDimension + 1)

EquationInputs == RegisteredEquations \cup {"euler aos"}

EquationOfStateInputs == EquationOfStateList \cup {"van der walls"}

ConfigurationInputs == InitialStateList \cup {"unifrom"}

InitialDirectionInputs == {F(0), F(1)}

InitConfig ==
    /\ PureIdle
    /\ PrecomputeIdle
    /\ StepIdle
    /\ BoundaryIdle /\ CflIdle /\ VacuumIdle /\ ThreadsIdle /\ LateIdle
    /\ fEos = <<F(0), F(0), F(0), F(0)>>
    /\ cpc = "parsed"
    /\ dimension_ \in DimensionInputs
    /\ equation_ \in EquationInputs
    /\ equation_of_state_ \in EquationOfStateInputs
    /\ configuration_ \in ConfigurationInputs
    /\ initial_direction_ \in InitialDirectionInputs
    /\ time_loop_executed_ = FALSE
    /\ message = <<>>

cframe ==
    UNCHANGED <<fvars, fEos, pvars, svars, bvars, kvars, vvars, tvars, wvars,
                dimension_, equation_, equation_of_state_, configuration_,
                initial_direction_>>

\* dispatch: AssertThrow(dimension_ >= 1 && dimension_ <= 3, ...)
CheckDimension ==
    /\ cpc = "parsed"
    /\ IF dimension_ >= MinDimension /\ dimension_ <= MaxDimension
          THEN cpc' = "dimension" /\ UNCHANGED message
          ELSE /\ cpc' = "thrown"
               /\ message' = <<"dave", "The dimension parameter needs to be either ",
                               "1", ", ", "2", ", or ", "3",
                               ", but we encountered ",
                               ToString(dimension_)>>
    /\ UNCHANGED time_loop_executed_
    /\ cframe

\* signals->dispatch(...): every registered callback returns at once unless
\* equation == name; the one that matches constructs the TimeLoop.
SignalsDispatch ==
    /\ cpc = "dimension"
    /\ cpc' = IF equation_ \in RegisteredEquations THEN "constructed"
                                                   ELSE "dispatched"
    /\ UNCHANGED <<time_loop_executed_, message>>
    /\ cframe

\* ParameterAcceptor::initialize runs populate_functions.
PopulateFunctions ==
    /\ cpc = "constructed"
    /\ IF equation_of_state_ \in EquationOfStateList
          THEN cpc' = "populated" /\ UNCHANGED message
          ELSE /\ cpc' = "thrown"
               /\ message' = <<"Could not find an equation of state description with name ",
                               equation_of_state_>>
    /\ UNCHANGED time_loop_executed_
    /\ cframe

\* ParameterAcceptor::initialize runs InitialValues'
\* parse_parameters_callback.
ParseParametersCallback ==
    /\ cpc = "populated"
    /\ IF initial_direction_ = F(0)
          THEN /\ cpc' = "thrown"
               /\ message' = <<"Initial direction is set to the zero vector.">>
          ELSE IF configuration_ \in InitialStateList
          THEN cpc' = "initialized" /\ UNCHANGED message
          ELSE /\ cpc' = "thrown"
               /\ message' = <<"Could not find an initial state description with name ",
                               configuration_>>
    /\ UNCHANGED time_loop_executed_
    /\ cframe

\* time_loop.run(); time_loop_executed = true;
TimeLoopRun ==
    /\ cpc = "initialized"
    /\ time_loop_executed_' = TRUE
    /\ cpc' = "dispatched"
    /\ UNCHANGED message
    /\ cframe

\* dispatch: AssertThrow(time_loop_executed_ == true, ...)
CheckExecuted ==
    /\ cpc = "dispatched"
    /\ IF time_loop_executed_
          THEN cpc' = "done" /\ UNCHANGED message
          ELSE /\ cpc' = "thrown"
               /\ message' = <<"dave", "No equation was dispatched with the chosen equation parameter ",
                               equation_>>
    /\ UNCHANGED time_loop_executed_
    /\ cframe

NextConfig ==
    \/ CheckDimension
    \/ SignalsDispatch
    \/ PopulateFunctions
    \/ ParseParametersCallback
    \/ TimeLoopRun
    \/ CheckExecuted

SpecConfig == InitConfig /\ [][NextConfig]_vars

\* The configuration errors of the parameter file that start-up meets
\* first, with the offending value (as text) and the accepted values.
dimension_error == dimension_ \notin MinDimension..MaxDimension

equation_error == ~dimension_error /\ equation_ \notin RegisteredEquations

equation_of_state_error ==
    /\ ~dimension_error /\ ~equation_error
    /\ equation_of_state_ \notin EquationOfStateList

configuration_error ==
    /\ ~dimension_error /\ ~equation_error /\ ~equation_of_state_error
    /\ initial_direction_ # F(0)
    /\ configuration_ \notin InitialStateList

offending_value ==
    CASE dimension_error -> ToString(dimension_)
      [] equation_error -> equation_
      [] equation_of_state_error -> equation_of_state_
      [] configuration_error -> configuration_

accepted_values ==
    CASE dimension_error ->
             {ToString(d) : d \in MinDimension..MaxDimension}
      [] equation_error -> RegisteredEquations
      [] equation_of_state_error -> EquationOfStateList
      [] configuration_error -> InitialStateList

any_error ==
    \/ dimension_error \/ equation_error
    \/ equation_of_state_error \/ configuration_error

finished == cpc \in {"done", "thrown"}

\* C15: each configuration error (dimension, equation, equation of state,
\* initial state) ends start-up with an exception whose message names the
\* offending value and the accepted values.
C15_NamesValueAndAcceptedSet ==
    (finished /\ any_error) =>
        /\ cpc = "thrown"
        /\ offending_value \in Range(message)
        /\ accepted_values \subseteq Range(message)

\* Each of these errors ends start-up with an exception whose message names
\* the offending value; the time loop has not run.
C15_FatalAndNamesValue ==
    (finished /\ any_error) =>
        /\ cpc = "thrown"
        /\ ~time_loop_executed_
        /\ offending_value \in Range(message)

\* Only the message for the dimension names the accepted values.
C15_OnlyDimensionNamesAcceptedSet ==
    (finished /\ any_error) =>
        (accepted_values \subseteq Range(message) <=> dimension_error)

\* Start-up threw for an equation name no registered driver matches; the
\* message names it and none of the registered names.
C15_Witness ==
    /\ cpc = "thrown"
    /\ equation_error
    /\ equation_ \in Range(message)
    /\ RegisteredEquations \cap Range(message) = {}

C15_WitnessEquationOfState ==
    cpc = "thrown" /\ equation_of_state_error
    /\ EquationOfStateList \cap Range(message) = {}

C15_WitnessConfiguration ==
    cpc = "thrown" /\ configuration_error
    /\ InitialStateList \cap Range(message) = {}

C15_WitnessDimension ==
    cpc = "thrown" /\ dimension_error /\ dimension_ = MaxDimension + 1

-----------------------------------------------------------------------------
(* HyperbolicModule::cfl(new_cfl)                                           *)

\* The largest number of calls of cfl() in one behaviour.
MaxCflCalls == 3

\* The arguments of the calls.
NewCflInputs == {F(-1), F(0), FHalf, F(2)}

InitCfl ==
    /\ PureIdle
    /\ PrecomputeIdle
    /\ StepIdleButCfl
    /\ BoundaryIdle /\ ConfigIdle /\ VacuumIdle /\ ThreadsIdle /\ LateIdle
    /\ fEos = <<F(0), F(0), F(0), F(0)>>
    /\ cfl_ \in CflInputs
    /\ kpc = "ready"
    /\ kbuild \in {"debug", "release"}
    /\ kargs = <<>>

\* Assert(cfl_ > Number(0.), dealii::ExcInternalError()): the stored value
\* is tested, before the assignment.
cfl_assertion(new_cfl) == FGt(cfl_, F(0))

\* cfl(new_cfl).  Assert is compiled in in debug builds only; there a
\* failed Assert aborts the program.
CflSet(new_cfl) ==
    /\ kpc = "ready"
    /\ Len(kargs) < MaxCflCalls
    /\ kargs' = Append(kargs, new_cfl)
    /\ IF kbuild = "debug" /\ ~cfl_assertion(new_cfl)
          THEN kpc' = "aborted" /\ UNCHANGED cfl_
          ELSE kpc' = "ready" /\ cfl_' = new_cfl
    /\ UNCHANGED kbuild
    /\ UNCHANGED <<spc, id_violation_strategy_, n_restarts_, n_warnings_,
                   tau, tau_max0, tau_max, lambda_max, remote_bound,
                   dij_matrix_, lij_matrix_, limiter_iter, tau_step, U_new,
                   restart_needed, result, stodo, calls, local_tau_max,
                   update_tau, n_restarts0, n_warnings0, cause>>
    /\ UNCHANGED <<fvars, fEos, pvars, bvars, cvars, vvars, tvars, wvars>>

NextCfl == \E new_cfl \in NewCflInputs : CflSet(new_cfl)

SpecCfl == InitCfl /\ [][NextCfl]_vars

\* C16: the stored relative CFL number is positive in every reachable
\* state.
C16_StoredCflPositive == kpc # "idle" => FGt(cfl_, F(0))

\* In a debug build the assertion trips only in the call after the one
\* that stored a non-positive value.
C16_AssertionOneCallLate ==
    kpc = "aborted" =>
        /\ kbuild = "debug"
        /\ Len(kargs) >= 2
        /\ ~FGt(kargs[Len(kargs) - 1], F(0))
        /\ cfl_ = kargs[Len(kargs) - 1]

\* A call cfl(0) returned and 0 is stored, in a debug build.
C16_Witness ==
    /\ kpc = "ready"
    /\ kbuild = "debug"
    /\ kargs = <<F(0)>>
    /\ cfl_ = F(0)

-----------------------------------------------------------------------------
(* HyperbolicSystemView::filter_vacuum_density                              *)

\* std::numeric_limits<ScalarNumber>::epsilon(): 2^(1 - Precision).
NumericLimitsEpsilon == Round(1, 1, 1 - Precision)

\* std::abs
FAbs(x) == [m |-> Abs(x.m), e |-> x.e]

\* dealii::compare_and_apply_mask<SIMDComparison::less_than> on one lane.
compare_and_apply_mask_lt(l, r, t, f) == IF FGt(r, l) THEN t ELSE f

\* reference_density() * vacuum_state_relaxation_large() * eps
rho_cutoff_large ==
    FMul(FMul(reference_density_, vacuum_state_relaxation_large_),
         NumericLimitsEpsilon)

filter_vacuum_density(rho) ==
    compare_and_apply_mask_lt(FAbs(rho), rho_cutoff_large, F(0), rho)

\* Parameters: the defaults 1 and 1.e4, and values that put the cutoff at
\* 1, 2 and 3.
ReferenceDensityInputs == {F(1), F(2)}

RelaxationInputs ==
    {F(10000), Round(1, 1, Precision - 1),
     Round(3, 1, Precision - 2)}

\* Densities: zero, at, below and above the cutoffs, of both signs.
VacuumRhoInputs ==
    {Round(s * n, d, 0) : s \in {-1, 1}, n \in {0, 1, 2, 3, 5000}, d \in {1, 2}}

InitVacuum ==
    /\ PureIdle
    /\ PrecomputeIdle
    /\ StepIdle
    /\ BoundaryIdle /\ ConfigIdle /\ CflIdle /\ ThreadsIdle /\ LateIdle
    /\ fEos = <<F(0), F(0), F(0), F(0)>>
    /\ vpc = "input"
    /\ reference_density_ \in ReferenceDensityInputs
    /\ vacuum_state_relaxation_large_ \in RelaxationInputs
    /\ vrho \in VacuumRhoInputs
    /\ vresult = F(0)

ApplyFilterVacuumDensity ==
    /\ vpc = "input"
    /\ vresult' = filter_vacuum_density(vrho)
    /\ vpc' = "returned"
    /\ UNCHANGED <<reference_density_, vacuum_state_relaxation_large_, vrho>>
    /\ UNCHANGED <<fvars, fEos, pvars, svars, bvars, cvars, kvars, tvars, wvars>>

NextVacuum == ApplyFilterVacuumDensity

SpecVacuum == InitVacuum /\ [][NextVacuum]_vars

\* C17 as stated: 0 is returned when |rho| <= cutoff, rho otherwise.
C17_Original ==
    vpc = "returned" =>
        vresult = IF FCmp(FAbs(vrho), rho_cutoff_large) <= 0 THEN F(0)
                                                             ELSE vrho

\* C17: filter_vacuum_density(rho) returns 0 when |rho| is strictly smaller
\* than the cutoff reference_density * vacuum_state_relaxation_large * eps
\* and rho unmodified otherwise, the cutoff itself included.
C17_StrictlyBelowCutoff ==
    vpc = "returned" =>
        vresult = IF FCmp(FAbs(vrho), rho_cutoff_large) < 0 THEN F(0)
                                                            ELSE vrho

\* A density of magnitude exactly the cutoff was returned unmodified.
C17_Witness ==
    /\ vpc = "returned"
    /\ FAbs(vrho) = rho_cutoff_large
    /\ FGt(F(0), vrho)
    /\ vresult = vrho

-----------------------------------------------------------------------------
(* The d_ij sweep of HyperbolicModule::step: every thread tightens the      *)
(* shared std::atomic<Number> tau_max with its local minimum                *)

\* Number of threads of the sweep.
NThreads == 3

Threads == 1..NThreads

\* The local minima the threads propose.
ProposalInputs == {F(1), F(2), F(3)}

InitThreads ==
    /\ PureIdle
    /\ PrecomputeIdle
    /\ StepIdle
    /\ BoundaryIdle /\ ConfigIdle /\ CflIdle /\ VacuumIdle /\ LateIdle
    /\ fEos = <<F(0), F(0), F(0), F(0)>>
    /\ atomic_tau_max \in TauMaxInputs
    /\ atomic_tau_max0 = atomic_tau_max
    /\ tpc = [th \in Threads |-> "load"]
    /\ tproposal \in [Threads -> ProposalInputs]
    /\ tcurrent = [th \in Threads |-> F(0)]

tframe ==
    UNCHANGED <<fvars, fEos, pvars, svars, bvars, cvars, kvars, vvars, wvars,
                atomic_tau_max0, tproposal>>

\* current = tau_max.load()
ThreadLoad(th) ==
    /\ tpc[th] = "load"
    /\ tcurrent' = [tcurrent EXCEPT ![th] = atomic_tau_max]
    /\ tpc' = [tpc EXCEPT ![th] = "test"]
    /\ UNCHANGED atomic_tau_max
    /\ tframe

\* while (current > local minimum ...
ThreadTest(th) ==
    /\ tpc[th] = "test"
    /\ tpc' = [tpc EXCEPT ![th] =
                  IF FGt(tcurrent[th], tproposal[th]) THEN "cas" ELSE "done"]
    /\ UNCHANGED <<atomic_tau_max, tcurrent>>
    /\ tframe

\* The mutant of cas_succeeds: the value is stored without comparing.
cas_succeeds_blind(th) == TRUE

\* compare_exchange succeeds iff tau_max still holds the value loaded last.
cas_succeeds(th) == atomic_tau_max = tcurrent[th]

\* ... && !tau_max.compare_exchange(current, local minimum)): on success
\* the local minimum is stored, on failure current is reloaded.
ThreadCas(th) ==
    /\ tpc[th] = "cas"
    /\ IF cas_succeeds(th)
          THEN /\ atomic_tau_max' = tproposal[th]
               /\ tpc' = [tpc EXCEPT ![th] = "done"]
               /\ UNCHANGED tcurrent
          ELSE /\ tcurrent' = [tcurrent EXCEPT ![th] = atomic_tau_max]
               /\ tpc' = [tpc EXCEPT ![th] = "test"]
               /\ UNCHANGED atomic_tau_max
    /\ tframe

NextThreads ==
    \/ \E th \in Threads : ThreadLoad(th)
    \/ \E th \in Threads : ThreadTest(th)
    \/ \E th \in Threads : ThreadCas(th)

SpecThreads == InitThreads /\ [][NextThreads]_vars

all_threads_done == \A th \in Threads : tpc[th] = "done"

\* C18: under every interleaving the shared tau_max never increases, and
\* once all threads have finished it is the minimum of its initial value
\* and all proposed local minima.
C18_TightenOnly ==
    /\ [][FCmp(atomic_tau_max', atomic_tau_max) <= 0]_vars
    /\ [](all_threads_done =>
             atomic_tau_max = FMin(atomic_tau_max0,
                                   min_over(tproposal, Threads)))

\* All threads finished after one of them lost a compare-and-swap: its
\* last loaded value is another thread's proposal, and the result is the
\* smallest proposal, below the initial value.
C18_Witness ==
    /\ all_threads_done
    /\ FGt(atomic_tau_max0, atomic_tau_max)
    /\ \E th, other \in Threads :
          /\ th # other
          /\ tcurrent[th] = tproposal[other]
          /\ tcurrent[th] # atomic_tau_max0
          /\ FGt(tproposal[other], tproposal[th])
          /\ atomic_tau_max = tproposal[th]

\* A compare-and-swap is about to fail: tau_max changed since it was loaded.
C18_WitnessContention ==
    \E th \in Threads : tpc # <<>> /\ tpc[th] = "cas" /\ ~cas_succeeds(th)

-----------------------------------------------------------------------------
(* The two EOS modes of cycle 0 (checked under SpecPrecompute)              *)

\* The rows the scalar path of cycle 0 writes for the range [left, right):
\* the blocks whose first row is not constrained.
scalar_path_rows ==
    UNION {Block(i) : i \in {k \in Iterations(left, right) : row_length(k) # 1}}

\* The tuple the scalar path of cycle 0 writes to row r.
scalar_path_tuple(r) ==
    LET U_i == Urows[r]
        rho_i == density(U_i)
        e_i == FDiv(internal_energy(U_i), rho_i)
        p_i == eos_pressure(rho_i, e_i)
        gamma_i == surrogate_gamma(U_i, p_i)
    IN <<p_i, gamma_i, ZeroEntropy, ZeroEntropy>>

\* The sweep that has returned left what the scalar path leaves: the same
\* rows written, with the same tuples, every other row untouched.
SameAsScalarPath ==
    /\ written = scalar_path_rows
    /\ \A r \in Rows :
           precomputed[r] = IF r \in scalar_path_rows THEN scalar_path_tuple(r)
                            ELSE prec0[r]

\* C19: for the same state vector, sparsity pattern and range [left, right),
\* cycle 0 writes the same tuples (p_i, gamma_i, 0, 0) to the same rows
\* whether the EOS prefers the vector interface or not, for every left.
C19_SameInBothModes ==
    (phase = "returned" /\ cycle = 0) => SameAsScalarPath

\* C19 restricted to left = 0: there the two modes agree.
C19_SameInBothModesAtLeftZero ==
    (phase = "returned" /\ cycle = 0 /\ left = 0) => SameAsScalarPath

\* A vector-EOS sweep of cycle 0 with left > 0 has returned and the rows it
\* wrote are not the rows the scalar path writes.
C19_Witness ==
    /\ phase = "returned"
    /\ cycle = 0
    /\ prefer_vector
    /\ left > 0
    /\ written # scalar_path_rows

-----------------------------------------------------------------------------
(* The one-ring minimum of cycle 1 (checked under SpecPrecompute)           *)

\* The one-ring of row i: i itself and its column neighbours.
one_ring(i) == Range(columns[i])

\* The surrogate gamma of row j: the value cycle 0 computes from U_j.
surrogate_gamma_of_row(j) == scalar_path_tuple(j)[2]

\* The smallest surrogate gamma over the one-ring of row i.
one_ring_gamma_min(i) ==
    LET S == {surrogate_gamma_of_row(j) : j \in one_ring(i)}
    IN CHOOSE g \in S : \A h \in S : FCmp(g, h) <= 0

\* When cycle 1 was entered, cycle 0 had left p and gamma on every row of
\* the one-ring of row i.
one_ring_precomputed(i) ==
    \A j \in one_ring(i) :
        /\ prec0[j][1] = scalar_path_tuple(j)[1]
        /\ prec0[j][2] = scalar_path_tuple(j)[2]

\* Row i holds its cycle-1 result: the one-ring minimum of gamma, and s_i
\* and eta_i computed with it.
one_ring_result(i) ==
    \A gamma_min \in {one_ring_gamma_min(i)} :
        /\ precomputed[i][2] = gamma_min
        /\ precomputed[i][3] = surrogate_specific_entropy(Urows[i], gamma_min)
        /\ precomputed[i][4] = surrogate_harten_entropy(Urows[i], gamma_min)

\* When cycle 1 has returned, every row it has written holds its one-ring
\* result, whatever rows were written before it.
OneRingResults ==
    (cycle = 1 /\ phase = "returned")
        => \A i \in written : one_ring_precomputed(i) => one_ring_result(i)

\* No iteration of cycle 1 changes the p_j that the other rows read.
PressureKept ==
    phase = "cycle1" =>
        \A r \in Rows : precomputed'[r][1] = precomputed[r][1]

C20_WitnessOverwrittenNeighbour ==
    /\ cycle = 1
    /\ phase = "cycle1"
    /\ \E i \in todo : \E j \in (one_ring(i) \cap written) \ {i} :
           /\ row_length(i) # 1
           /\ one_ring_precomputed(i)
           /\ precomputed[j][2] # surrogate_gamma_of_row(j)

-----------------------------------------------------------------------------
(* The order of the two cycles (checked under SpecPrecompute)               *)

\* The caller passes from cycle 0 to cycle 1 of the same pass.
cycle_boundary == cycle = 0 /\ cycle' = 1

\* The rows cycle 1 processes: the rows of the non-constrained blocks of
\* [left, right).
cycle_one_rows ==
    UNION {Block(i) : i \in {k \in Iterations(left, right) : row_length(k) # 1}}

\* The rows of [left, right) whose p_j cycle 1 reads as a neighbour of a row
\* it processes.
neighbour_rows_read ==
    {j \in left..(right - 1) : \E i \in cycle_one_rows : j \in one_ring(i) \ {i}}

\* Every iteration of cycle 0 has finished when cycle 1 is started.
CyclesOrdered == cycle_boundary => (phase = "returned" /\ todo = {})

\* Every p_j cycle 1 reads for a neighbour was written by cycle 0.
ReadPressuresWritten == cycle_boundary => neighbour_rows_read \subseteq written

\* C21: the two cycles are ordered by a barrier, no cycle-1 row task starts
\* before every cycle-0 row task of the pass has finished, so every p_j that
\* cycle 1 reads for a neighbour j of a processed row was written by cycle 0
\* of the same pass.
C21_BarrierAndPressuresWritten ==
    /\ [][CyclesOrdered]_vars
    /\ [][ReadPressuresWritten]_vars

\* C21 without the vector-EOS path at left > 0: there cycle 0 has written
\* every p_j that cycle 1 reads.
C21_HoldsOutsideVectorOffset ==
    /\ [][CyclesOrdered]_vars
    /\ [][(prefer_vector /\ left > 0) \/ ReadPressuresWritten]_vars

\* Cycle 1 of a vector-EOS pass with left > 0 has processed a row i after
\* cycle 0 left the p_j of its neighbour j of [left, right) unwritten.
C21_Witness ==
    /\ cycle = 1
    /\ phase \in {"cycle1", "returned"}
    /\ prefer_vector
    /\ left > 0
    /\ \E i \in written : \E j \in (one_ring(i) \ {i}) \cap (left..(right - 1)) :
           /\ row_length(j) # 1
           /\ prec0[j][1] = StalePrecomputed[1]
           /\ prec0[j][1] # scalar_path_tuple(j)[1]

-----------------------------------------------------------------------------
(* The scratch vectors of the vector-EOS path (checked under SpecPrecompute) *)

\* The entries of the scratch vectors of the current range.
scratch_entries == 0..(right - left - 1)

\* The scratch vectors keep their size in this step.
same_size == \A v \in 1..3 : DOMAIN scratch'[v] = DOMAIN scratch[v]

\* The entries of scratch vector v that this step changes.
entries_changed(v) ==
    {j \in DOMAIN scratch[v] : scratch'[v][j] # scratch[v][j]}

\* The vectors are resized by the one RYUJIN_OMP_SINGLE block only, before
\* the fill loop starts.
ResizeByOne ==
    ~same_size => (phase = "resize" /\ phase' = "fill")

\* An entry of rho or e is written by the one iteration of the fill loop
\* that owns it, and p is not touched meanwhile.
SingleWriter ==
    \A v \in 2..3 :
        (same_size /\ entries_changed(v) # {}) =>
            /\ phase = "fill"
            /\ phase' = "fill"
            /\ entries_changed(1) = {}
            /\ \E i \in todo :
                   /\ todo' = todo \ {i}
                   /\ entries_changed(v) \subseteq i..(i + stride_size - 1)

\* p is written by the one eos->pressure call, after the fill loop has run
\* all its iterations and before the loop that reads p back starts.
PressureByOne ==
    (same_size /\ entries_changed(1) # {}) =>
        /\ phase = "fill"
        /\ todo = {}
        /\ phase' = "write"
        /\ entries_changed(2) = {}
        /\ entries_changed(3) = {}

\* While p is read back nothing is written to the scratch vectors.
ReadBackOnly == phase = "write" => scratch' = scratch

\* While p is read back, every entry of the range holds the rho and e of
\* its row and the pressure computed from them.
ScratchFilled ==
    (phase = "write") =>
        /\ \A v \in 1..3 : DOMAIN scratch[v] = scratch_entries
        /\ \A j \in scratch_entries :
               /\ scratch[2][j] = density(Urows[left + j])
               /\ scratch[3][j] = FDiv(internal_energy(Urows[left + j]),
                                       density(Urows[left + j]))
               /\ scratch[1][j] = eos_pressure(scratch[2][j], scratch[3][j])

\* C22: the scratch vectors rho, e and p (sized right - left) are never
\* accessed by two threads at once: every entry has a single writer, the
\* resize and the eos->pressure call each run on one thread, and the EOS
\* call comes after every rho/e entry of the range was filled and before any
\* p entry is read back.
C22_ScratchSingleWriter ==
    /\ [][ResizeByOne]_vars
    /\ [][SingleWriter]_vars
    /\ [][PressureByOne]_vars
    /\ [][ReadBackOnly]_vars
    /\ []ScratchFilled

\* The read-back loop of a range of several blocks has read some p entries
\* and still has others to read.
C22_Witness ==
    /\ phase = "write"
    /\ prefer_vector
    /\ right - left > stride_size
    /\ todo # {}
    /\ todo # Iterations(0, right - left)
    /\ written # {}

-----------------------------------------------------------------------------
(* The dispatch_check hook (checked under SpecPrecompute)                   *)

\* The first rows of the non-constrained blocks of [left, right).
unconstrained_blocks ==
    {i \in Iterations(left, right) : row_length(i) # 1}

\* dispatch_check was called once with the first row of every block written
\* so far, and with no other argument.
DispatchCheckedBeforeWrite ==
    /\ \A i \in Rows : checked[i] <= 1
    /\ \A i \in Rows : checked[i] = 1 => i \in unconstrained_blocks
    /\ \A i \in unconstrained_blocks :
           (Block(i) \cap written # {}) => checked[i] = 1

\* When the sweep has returned dispatch_check was called exactly once with
\* the first row of every non-constrained block of [left, right).
DispatchCheckedOnce ==
    phase = "returned" =>
        \A i \in Rows : checked[i] = IF i \in unconstrained_blocks THEN 1 ELSE 0

\* C23: in every precomputation sweep, in both EOS modes, dispatch_check is
\* invoked exactly once for each non-constrained row block, before the
\* block's precomputed values are written, with the block's row index i in
\* the index space of the rows of [left, right).
C23_DispatchCheckPerBlock ==
    (phase \in {"write", "scalar", "cycle1", "returned"})
        => (DispatchCheckedBeforeWrite /\ DispatchCheckedOnce)

\* C23 without the vector-EOS path at left > 0.
C23_HoldsOutsideVectorOffset ==
    (/\ phase \in {"write", "scalar", "cycle1", "returned"}
     /\ ~(cycle = 0 /\ prefer_vector /\ left > 0))
        => (DispatchCheckedBeforeWrite /\ DispatchCheckedOnce)

\* A vector-EOS sweep of cycle 0 with left > 0 and no constrained row has
\* returned after calling dispatch_check with an index below left.
C23_Witness ==
    /\ phase = "returned"
    /\ cycle = 0
    /\ prefer_vector
    /\ left > 0
    /\ \A r \in Rows : row_length(r) # 1
    /\ \E i \in 0..(left - 1) : checked[i] = 1

-----------------------------------------------------------------------------
(* EquationDispatch::dispatch over the registered drivers: every            *)
(* Dispatch<Description, Number> object connects one callback to            *)
(* signals->dispatch, and several of them may carry the same name.          *)

\* The largest number of registered drivers.
MaxCallbacks == 3

\* The lists of names that register_dispatch can have built.
CallbackLists ==
    UNION {[1..n -> RegisteredEquations] : n \in 0..MaxCallbacks}

InitDispatch ==
    /\ PureIdle
    /\ PrecomputeIdle
    /\ StepIdle
    /\ BoundaryIdle /\ CflIdle /\ VacuumIdle /\ ThreadsIdle
    /\ fEos = <<F(0), F(0), F(0), F(0)>>
    /\ cpc = "parsed"
    /\ dimension_ \in DimensionInputs
    /\ equation_ \in EquationInputs
    /\ equation_of_state_ = ""
    /\ configuration_ = ""
    /\ initial_direction_ = FZero
    /\ time_loop_executed_ = FALSE
    /\ message = <<>>
    /\ callbacks \in CallbackLists
    /\ slot = 1
    /\ time_loops = <<>>
    /\ OutputIdle
    /\ QuantitiesIdle

dframe ==
    UNCHANGED <<fvars, fEos, pvars, svars, bvars, kvars, vvars, tvars, ovars,
                qvars,
                dimension_, equation_, equation_of_state_, configuration_,
                initial_direction_, callbacks>>

\* dispatch: AssertThrow(signals != nullptr, ...); signals is allocated by
\* the first registration.
CheckSignals ==
    /\ cpc = "dimension"
    /\ IF callbacks # <<>>
          THEN cpc' = "signal" /\ UNCHANGED message
          ELSE /\ cpc' = "thrown"
               /\ message' = <<"dave", "No equation has been registered. ">>
    /\ UNCHANGED <<time_loop_executed_, slot, time_loops>>
    /\ dframe

\* The mutant of already_executed: the callback does not look at the flag.
already_executed_ignored == FALSE

\* The callback's test of AssertThrow(time_loop_executed == false, ...).
already_executed == time_loop_executed_

\* The callback of one driver: if (equation != name) return;
CallbackSkip ==
    /\ cpc = "signal"
    /\ slot <= Len(callbacks)
    /\ equation_ # callbacks[slot]
    /\ slot' = slot + 1
    /\ UNCHANGED <<cpc, message, time_loop_executed_, time_loops>>
    /\ dframe

\* The callback of a driver of the configured name when a TimeLoop has run
\* already: the AssertThrow throws and the signal call is left.
CallbackThrow ==
    /\ cpc = "signal"
    /\ slot <= Len(callbacks)
    /\ equation_ = callbacks[slot]
    /\ already_executed
    /\ cpc' = "thrown"
    /\ message' = <<"dave", "Trying to execute more than one TimeLoop object with the given equation parameter ",
                    equation_>>
    /\ UNCHANGED <<slot, time_loop_executed_, time_loops>>
    /\ dframe

\* The callback of a driver of the configured name: the TimeLoop of the
\* dimension is constructed and run, then time_loop_executed = true.  An
\* exception of initialize() or run() leaves the flag as it is.
CallbackRun(completes) ==
    /\ cpc = "signal"
    /\ slot <= Len(callbacks)
    /\ equation_ = callbacks[slot]
    /\ ~already_executed
    /\ IF dimension_ \in {1, 2, 3}
          THEN /\ time_loops' = Append(time_loops, slot)
               /\ IF completes
                     THEN /\ time_loop_executed_' = TRUE
                          /\ slot' = slot + 1
                          /\ UNCHANGED <<cpc, message>>
                     ELSE /\ cpc' = "thrown"
                          /\ message' = <<"TimeLoop">>
                          /\ UNCHANGED <<slot, time_loop_executed_>>
          ELSE /\ slot' = slot + 1
               /\ UNCHANGED <<cpc, message, time_loop_executed_, time_loops>>
    /\ dframe

\* Every callback has returned: signals->dispatch returns.
SignalReturn ==
    /\ cpc = "signal"
    /\ slot > Len(callbacks)
    /\ cpc' = "dispatched"
    /\ UNCHANGED <<message, time_loop_executed_, slot, time_loops>>
    /\ dframe

NextDispatch ==
    \/ CheckDimension
    \/ CheckSignals
    \/ CallbackSkip
    \/ CallbackThrow
    \/ \E completes \in BOOLEAN : CallbackRun(completes)
    \/ SignalReturn
    \/ CheckExecuted

SpecDispatch == InitDispatch /\ [][NextDispatch]_vars

\* The registered drivers that carry the configured equation name.
matching_callbacks == {k \in 1..Len(callbacks) : callbacks[k] = equation_}

\* The drivers of the configured name that are registered after one that
\* has run a TimeLoop.
later_matching_callbacks ==
    {k \in matching_callbacks : \E n \in 1..Len(time_loops) : time_loops[n] < k}

\* C24: during one dispatch() call at most one TimeLoop is constructed and
\* run, also when several registered drivers carry the configured name: a
\* second matching driver throws instead of running, and dispatch() returns
\* normally only if exactly one TimeLoop has run.
C24_AtMostOneTimeLoop ==
    /\ Len(time_loops) <= 1
    /\ \A k \in Range(time_loops) : k \in matching_callbacks
    /\ cpc = "done" =>
           (Len(time_loops) = 1 /\ Cardinality(matching_callbacks) = 1)
    /\ \A k \in later_matching_callbacks :
           /\ slot <= k
           /\ cpc \in {"signal", "thrown"}

\* A second driver of the configured name was reached after the first one
\* ran its TimeLoop, and it threw.
C24_Witness ==
    /\ cpc = "thrown"
    /\ Len(message) = 3
    /\ message[2] = "Trying to execute more than one TimeLoop object with the given equation parameter "
    /\ Len(time_loops) = 1
    /\ Cardinality(matching_callbacks) >= 2

\* dispatch() has returned normally after one TimeLoop has run.
C24_WitnessDone ==
    cpc = "done" /\ Len(time_loops) = 1 /\ Len(callbacks) >= 2

-----------------------------------------------------------------------------
(* TimeLoop::run and TimeLoop::output.  The two variants of the class in    *)
(* timeloop.template.h are told apart by "variant".  A time step is taken   *)
(* as one step of the main thread; whether it ends the loop (t >= t_final)  *)
(* or makes an output due (t > output_cycle * output_granularity) depends   *)
(* on tau and is left open.                                                 *)

\* The largest number of main-loop iterations.
MaxTimeSteps == 3

\* The values of output_cycle that "ia >> t >> output_cycle" can restore
\* on resume; 0 is also its value without resume.
RestoredOutputCycles == {0, 2}

NoFrame == [name |-> "", cycle |-> 0]

\* The worker threads a run can spawn: at most two for the initial outputs
\* and two in every iteration.
Workers == 1..(2 * (MaxTimeSteps + 1))

InitOutput ==
    /\ PureIdle
    /\ PrecomputeIdle
    /\ StepIdle
    /\ BoundaryIdle /\ ConfigIdle /\ CflIdle /\ VacuumIdle /\ ThreadsIdle
    /\ DispatchIdle
    /\ QuantitiesIdle
    /\ fEos = <<F(0), F(0), F(0), F(0)>>
    /\ variant \in {1, 2}
    /\ enable_compute_error \in BOOLEAN
    /\ opc = "initial"
    /\ opos = "idle"
    /\ oframe = NoFrame
    /\ output_cycle \in (IF variant = 1 THEN RestoredOutputCycles ELSE {0})
    /\ output_cycle0 = output_cycle
    /\ time_steps = 0
    /\ output_thread = 0
    /\ wstate = <<>>
    /\ wread = <<>>
    /\ output_vector = NoFrame
    /\ scheduled = <<>>
    /\ committed = <<>>

oframe_rest ==
    UNCHANGED <<fvars, fEos, pvars, svars, bvars, cvars, kvars, vvars, tvars,
                dvars, qvars, variant, enable_compute_error, output_cycle0>>

\* The name of the output made at position opc.
output_name ==
    IF opc \in {"initial", "solution"} THEN "-solution"
                                       ELSE "-analytic_solution"

\* The argument "cycle" of the output made at position opc: variant 1
\* passes output_cycle everywhere; variant 2 passes 0 to the two initial
\* outputs, output_cycle++ to the -solution output of the main loop and
\* output_cycle to its -analytic_solution output.
cycle_argument ==
    IF variant = 2 /\ opc \in {"initial", "initial_analytic"} THEN 0
    ELSE output_cycle

\* output(U, name, t, cycle) is called: "Schedule output cycle = " cycle.
OutputCall ==
    /\ opc \in {"initial", "initial_analytic", "solution", "analytic"}
    /\ opos = "idle"
    /\ opos' = "join"
    /\ oframe' = [name |-> output_name, cycle |-> cycle_argument]
    /\ scheduled' = Append(scheduled, [name |-> output_name,
                                       cycle |-> cycle_argument,
                                       step |-> time_steps])
    /\ output_cycle' = IF variant = 2 /\ opc = "solution"
                          THEN output_cycle + 1 ELSE output_cycle
    /\ UNCHANGED <<opc, time_steps, output_thread, wstate, wread,
                   output_vector, committed>>
    /\ oframe_rest

\* The mutant of previous_worker_finished: join() does not wait.
previous_worker_detached == TRUE

\* output_thread.join() in output() returns: the worker has finished.
previous_worker_finished == wstate[output_thread] = "committed"

\* if (output_thread.joinable()) output_thread.join();
OutputJoin ==
    /\ opos = "join"
    /\ output_thread # 0 => previous_worker_finished
    /\ output_thread' = 0
    /\ opos' = "copy"
    /\ UNCHANGED <<opc, oframe, output_cycle, time_steps, wstate, wread,
                   output_vector, scheduled, committed>>
    /\ oframe_rest

\* output_alpha = time_step.alpha(); output_vector[i] = U[i];
\* schlieren_postprocessor.compute_schlieren(output_vector);
OutputCopy ==
    /\ opos = "copy"
    /\ output_vector' = oframe
    /\ opos' = "spawn"
    /\ UNCHANGED <<opc, oframe, output_cycle, time_steps, output_thread,
                   wstate, wread, scheduled, committed>>
    /\ oframe_rest

\* output_thread = std::move(std::thread(output_worker)); output() returns
\* to run(), which goes on behind the call.
OutputSpawn ==
    /\ opos = "spawn"
    /\ wstate' = Append(wstate, "running")
    /\ wread' = Append(wread, NoFrame)
    /\ output_thread' = Len(wstate) + 1
    /\ opos' = "idle"
    /\ oframe' = NoFrame
    /\ opc' = CASE opc = "initial" ->
                       IF enable_compute_error THEN "initial_analytic"
                                               ELSE "enter_loop"
                [] opc = "initial_analytic" -> "enter_loop"
                [] opc = "solution" ->
                       IF enable_compute_error THEN "analytic"
                                               ELSE "end_output"
                [] opc = "analytic" -> "end_output"
    /\ UNCHANGED <<output_cycle, time_steps, output_vector, scheduled,
                   committed>>
    /\ oframe_rest

\* Behind the outputs: variant 1 runs ++output_cycle after the initial
\* outputs and after those of an iteration; variant 2 starts the loop with
\* output_cycle = 1.
AfterOutputs ==
    /\ opc \in {"enter_loop", "end_output"}
    /\ opos = "idle"
    /\ output_cycle' = IF variant = 1 THEN output_cycle + 1
                       ELSE IF opc = "enter_loop" THEN 1
                       ELSE output_cycle
    /\ opc' = "loop"
    /\ UNCHANGED <<opos, oframe, time_steps, output_thread, wstate, wread,
                   output_vector, scheduled, committed>>
    /\ oframe_rest

\* One iteration of the main loop up to the test of
\* t > output_cycle * output_granularity.
TimeStep(due) ==
    /\ opc = "loop"
    /\ time_steps < MaxTimeSteps
    /\ time_steps' = time_steps + 1
    /\ opc' = IF due THEN "solution" ELSE "loop"
    /\ UNCHANGED <<opos, oframe, output_cycle, output_thread, wstate, wread,
                   output_vector, scheduled, committed>>
    /\ oframe_rest

\* The loop condition t < t_final fails.
LoopEnd ==
    /\ opc = "loop"
    /\ opc' = "wait"
    /\ UNCHANGED <<opos, oframe, output_cycle, time_steps, output_thread,
                   wstate, wread, output_vector, scheduled, committed>>
    /\ oframe_rest

\* The mutant of last_worker_finished: run() does not wait.
last_worker_detached == TRUE

\* output_thread.join() at the end of run() returns.
last_worker_finished == wstate[output_thread] = "committed"

\* Wait for output thread: if (output_thread.joinable()) join(); run()
\* then returns.
FinalJoin ==
    /\ opc = "wait"
    /\ output_thread # 0 => last_worker_finished
    /\ output_thread' = 0
    /\ opc' = "returned"
    /\ UNCHANGED <<opos, oframe, output_cycle, time_steps, wstate, wread,
                   output_vector, scheduled, committed>>
    /\ oframe_rest

\* The worker thread k hands output_vector, the schlieren data and
\* output_alpha to data_out and writes them out.
WorkerRead(k) ==
    /\ k <= Len(wstate)
    /\ wstate[k] = "running"
    /\ wstate' = [wstate EXCEPT ![k] = "read"]
    /\ wread' = [wread EXCEPT ![k] = output_vector]
    /\ UNCHANGED <<opc, opos, oframe, output_cycle, time_steps,
                   output_thread, output_vector, scheduled, committed>>
    /\ oframe_rest

\* The worker thread k ends: "Commit output cycle = " cycle.
WorkerCommit(k) ==
    /\ k <= Len(wstate)
    /\ wstate[k] = "read"
    /\ wstate' = [wstate EXCEPT ![k] = "committed"]
    /\ committed' = Append(committed, k)
    /\ UNCHANGED <<opc, opos, oframe, output_cycle, time_steps,
                   output_thread, wread, output_vector, scheduled>>
    /\ oframe_rest

WorkerStep == \E k \in Workers : WorkerRead(k) \/ WorkerCommit(k)

NextOutput ==
    \/ OutputCall
    \/ OutputJoin
    \/ OutputCopy
    \/ OutputSpawn
    \/ AfterOutputs
    \/ \E due \in BOOLEAN : TimeStep(due)
    \/ LoopEnd
    \/ FinalJoin
    \/ \E k \in Workers : WorkerRead(k)
    \/ \E k \in Workers : WorkerCommit(k)

SpecOutput == InitOutput /\ [][NextOutput]_vars

\* The steps of the main thread inside output(): between "Schedule output
\* cycle" and the return of output().
OutputStep == OutputJoin \/ OutputCopy \/ OutputSpawn

\* The main thread and the worker threads are scheduled: a thread that can
\* take a step takes it.
SpecOutputFair ==
    SpecOutput /\ WF_vars(OutputStep) /\ WF_vars(WorkerStep)

\* The worker threads that have not finished.
live_workers == {k \in 1..Len(wstate) : wstate[k] # "committed"}

\* C25: output() never overwrites output_vector, output_alpha or the
\* schlieren data while a worker thread spawned before still uses them: the
\* previous worker is joined before the copy, so at most one worker thread
\* exists at any time (and every worker writes out the data copied for it).
C25_BuffersNotShared ==
    /\ Cardinality(live_workers) <= 1
    /\ opos \in {"copy", "spawn"} => live_workers = {}
    /\ \A k \in 1..Len(wstate) :
           wstate[k] # "running" =>
               /\ wread[k].name = scheduled[k].name
               /\ wread[k].cycle = scheduled[k].cycle

\* output() has joined a worker that had not finished when output() was
\* called, and is about to copy.
C25_Witness ==
    /\ opos = "copy"
    /\ Len(wstate) >= 2
    /\ Len(committed) = Len(wstate)
    /\ \E k \in 1..Len(scheduled) :
           scheduled[k].name = "-solution" /\ scheduled[k].step >= 1

\* The outputs scheduled so far have all been committed.
all_committed == Len(committed) = Len(scheduled)

\* The k-th output has been scheduled / committed.
is_scheduled(k) == Len(scheduled) >= k

is_committed(k) == \E n \in 1..Len(committed) : committed[n] = k

\* C26: every output cycle scheduled by output() is eventually committed
\* by its worker thread, and run() does not return before the last
\* scheduled output has been committed.
C26_EveryOutputCommitted ==
    /\ [](opc = "returned" => all_committed)
    /\ \A k \in Workers : is_scheduled(k) ~> is_committed(k)

\* run() has returned after outputs were made in the main loop.
C26_Witness ==
    /\ opc = "returned"
    /\ Len(scheduled) >= 3
    /\ all_committed

\* The -solution outputs scheduled so far, in order.
solution_outputs ==
    SelectSeq(scheduled, LAMBDA s : s.name = "-solution")

\* The -solution outputs carry the cycle numbers output_cycle0,
\* output_cycle0 + 1, ... in this order.
SolutionCyclesConsecutive ==
    \A k \in 1..Len(solution_outputs) :
        solution_outputs[k].cycle = output_cycle0 + k - 1

\* An -analytic_solution output carries the cycle number of the -solution
\* output of the same main-loop iteration.
AnalyticCycleMatches ==
    \A a \in 1..Len(scheduled) : \A b \in 1..Len(scheduled) :
        (/\ scheduled[a].name = "-analytic_solution"
         /\ scheduled[b].name = "-solution"
         /\ scheduled[a].step = scheduled[b].step
         /\ scheduled[a].step >= 1)
            => scheduled[a].cycle = scheduled[b].cycle

\* C27: in both variants of run() the -solution outputs carry the cycle
\* numbers 0, 1, 2, ... without gaps or repeats (from the restored
\* output_cycle on resume), and with enable_compute_error the
\* -analytic_solution output of a main-loop iteration carries the cycle
\* number of the -solution output of that iteration.
C27_CycleNumbers ==
    SolutionCyclesConsecutive /\ AnalyticCycleMatches

\* C27 for the variant TimeLoop<dim, Number> alone.
C27_HoldsForNumberVariant ==
    variant = 1 => (SolutionCyclesConsecutive /\ AnalyticCycleMatches)

\* The -solution cycle numbers are consecutive in both variants.
C27_SolutionCyclesConsecutive == SolutionCyclesConsecutive

\* The variant TimeLoop<dim> has scheduled the -analytic_solution output of
\* a main-loop iteration.
C27_Witness ==
    /\ variant = 2
    /\ enable_compute_error
    /\ \E a \in 1..Len(scheduled) :
           scheduled[a].name = "-analytic_solution" /\ scheduled[a].step >= 1


-----------------------------------------------------------------------------
\* Quantities: temporal statistics of one manifold and the mesh files.
\*
\* The model follows one manifold holding one point.  Its statistics are the
\* tuple <<val_old, val_new, val_sum, t_old, t_new, t_sum>>; a value is the
\* pair <<state, state_square>> that internal_accumulate() computes from the
\* state vector, which is an input of the call.

MaxQuantityOps == 4

OptionSets ==
    {{"time_averaged"}, {"instantaneous"}, {"instantaneous", "space_averaged"}}

TimeInputs == {F(0), Round(9, 8, 0), F(3), F(10)}

ValueInputs == {<<F(1), F(1)>>, <<F(3), F(9)>>}

ZeroValue == <<FZero, FZero>>

averaged(o) == "time_averaged" \in o \/ "space_averaged" \in o

\* The state after construction and parameter parsing: the maps are empty.
InitQuantities ==
    /\ PureIdle /\ PrecomputeIdle /\ StepIdle
    /\ BoundaryIdle /\ ConfigIdle /\ CflIdle /\ VacuumIdle /\ ThreadsIdle
    /\ DispatchIdle /\ OutputIdle
    /\ fEos = <<F(0), F(0), F(0), F(0)>>
    /\ qpc = "ready"
    /\ options \in OptionSets
    /\ clear_temporal_statistics_on_writeout_ \in BOOLEAN
    /\ mesh_files_have_been_written_ = FALSE
    /\ prepared = FALSE
    /\ val_old = <<>>
    /\ val_new = <<>>
    /\ val_sum = <<>>
    /\ t_old = FZero
    /\ t_new = FZero
    /\ t_sum = FZero
    /\ qcalls = <<>>
    /\ qtime = FZero
    /\ write_outs = 0
    /\ mesh_written_at = {}
    /\ qops = 0

qframe_rest ==
    UNCHANGED <<fvars, fEos, pvars, svars, bvars, cvars, kvars, vvars, tvars,
                dvars, ovars, options,
                clear_temporal_statistics_on_writeout_>>

\* clear_statistics(): every entry of the three vectors is value-initialised
\* and the three times are set to zero.
cleared ==
    /\ val_old' = ZeroValue
    /\ val_new' = ZeroValue
    /\ val_sum' = ZeroValue
    /\ t_old' = FZero
    /\ t_new' = FZero
    /\ t_sum' = FZero
    /\ qcalls' = <<>>

\* prepare(): rebuilds the maps, clears the statistics and marks the mesh
\* files as not yet written.
Prepare ==
    /\ qpc = "ready"
    /\ qops < MaxQuantityOps
    /\ qops' = qops + 1
    /\ prepared' = TRUE
    /\ cleared
    /\ mesh_files_have_been_written_' = FALSE
    /\ write_outs' = 0
    /\ mesh_written_at' = {}
    /\ UNCHANGED <<qpc, qtime>>
    /\ qframe_rest

\* The test for "no statistics accumulated yet", made after the swap.
no_statistics_yet(to, tn) == FCmp(to, FZero) = 0 /\ FCmp(tn, FZero) = 0

\* val_sum += 0.5 * tau * val_old;  val_sum += 0.5 * tau * val_new.
trapezoid_added(sum, dt, vold, vnew) ==
    FAdd(FAdd(sum, FMul(FMul(FHalf, dt), vold)), FMul(FMul(FHalf, dt), vnew))

\* accumulate(state_vector, t) with val the value of the point at t.
Accumulate(t, val) ==
    /\ qpc = "ready"
    /\ qops < MaxQuantityOps
    /\ FGe(t, qtime)
    /\ qops' = qops + 1
    /\ qtime' = t
    /\ IF ~prepared \/ ~averaged(options)
       THEN UNCHANGED <<val_old, val_new, val_sum, t_old, t_new, t_sum,
                        qcalls>>
       ELSE /\ val_old' = val_new
            /\ val_new' = val
            /\ qcalls' = Append(qcalls, [t |-> t, val |-> val])
            /\ t_new' = t
            /\ IF no_statistics_yet(t_new, t_old)
               THEN /\ t_old' = FSub(t, F(1))
                    /\ UNCHANGED <<val_sum, t_sum>>
               ELSE /\ t_old' = t_new
                    /\ \E tau_k \in {FSub(t, t_new)} :
                         /\ val_sum' =
                              <<trapezoid_added(val_sum[1], tau_k,
                                                val_new[1], val[1]),
                                trapezoid_added(val_sum[2], tau_k,
                                                val_new[2], val[2])>>
                         /\ t_sum' = FAdd(t_sum, tau_k)
    /\ UNCHANGED <<qpc, prepared, mesh_files_have_been_written_, write_outs,
                   mesh_written_at>>
    /\ qframe_rest

\* The value the flag takes once write_mesh_files() has returned.
flag_after_mesh_files_unset == FALSE

flag_after_mesh_files == TRUE

\* write_out(state_vector, t, cycle) with val the value of the point at t.
WriteOut(t, val) ==
    /\ qpc = "ready"
    /\ qops < MaxQuantityOps
    /\ FGe(t, qtime)
    /\ qops' = qops + 1
    /\ qtime' = t
    /\ write_outs' = write_outs + 1
    /\ IF ~mesh_files_have_been_written_
       THEN /\ mesh_written_at' = mesh_written_at \cup {write_outs + 1}
            /\ mesh_files_have_been_written_' = flag_after_mesh_files
       ELSE UNCHANGED <<mesh_written_at, mesh_files_have_been_written_>>
    /\ IF prepared /\ "instantaneous" \in options /\ averaged(options)
            /\ FCmp(t_new, t) # 0
       THEN /\ qpc' = "thrown"
            /\ UNCHANGED <<val_old, val_new, val_sum, t_old, t_new, t_sum,
                           qcalls>>
       ELSE /\ qpc' = qpc
            /\ IF prepared /\ clear_temporal_statistics_on_writeout_
               THEN cleared
               ELSE /\ val_new' =
                         IF prepared /\ "instantaneous" \in options
                                     /\ ~averaged(options)
                         THEN val ELSE val_new
                    /\ UNCHANGED <<val_old, val_sum, t_old, t_new, t_sum,
                                   qcalls>>
    /\ UNCHANGED prepared
    /\ qframe_rest

QuantitiesAccumulate == \E t \in TimeInputs, val \in ValueInputs : Accumulate(t, val)

QuantitiesWriteOut == \E t \in TimeInputs, val \in ValueInputs : WriteOut(t, val)

NextQuantities ==
    \/ Prepare
    \/ QuantitiesAccumulate
    \/ QuantitiesWriteOut

SpecQuantities == InitQuantities /\ [][NextQuantities]_vars


\* ---- C28: what accumulate() has summed since the statistics were cleared --

MinOf(S) == CHOOSE x \in S : \A y \in S : x <= y

\* m1 * 2^e1 = m2 * 2^e2, decided in integers.
ExactEq(m1, e1, m2, e2) ==
    LET lo == MinOf({e1, e2})
    IN m1 * Pow2(e1 - lo) = m2 * Pow2(e2 - lo)

\* The calls' times and values as integers over one common power of two.
times_lo(h) == MinOf({h[k].t.e : k \in 1..Len(h)})

values_lo(h, c) == MinOf({h[k].val[c].e : k \in 1..Len(h)})

time_int(h, k) == h[k].t.m * Pow2(h[k].t.e - times_lo(h))

value_int(h, c, k) == h[k].val[c].m * Pow2(h[k].val[c].e - values_lo(h, c))

\* Twice the trapezoidal sum of component c, over 2^(times_lo + values_lo).
RECURSIVE trapezoid_int(_, _, _)
trapezoid_int(h, c, n) ==
    IF n <= 1 THEN 0
    ELSE trapezoid_int(h, c, n - 1)
         + (time_int(h, n) - time_int(h, n - 1))
           * (value_int(h, c, n - 1) + value_int(h, c, n))

\* The same sums as the floating-point operations of the loop produce them:
\* each difference tau is rounded, each of the two products is rounded and
\* added on its own, and the running sums are rounded after every addition.
RECURSIVE rounded_t_sum(_, _)
rounded_t_sum(h, n) ==
    IF n <= 1 THEN FZero
    ELSE FAdd(rounded_t_sum(h, n - 1), FSub(h[n].t, h[n - 1].t))

RECURSIVE rounded_val_sum(_, _, _)
rounded_val_sum(h, c, n) ==
    IF n <= 1 THEN FZero
    ELSE LET dt == FSub(h[n].t, h[n - 1].t)
             s0 == rounded_val_sum(h, c, n - 1)
             s1 == FAdd(s0, FMul(FMul(FHalf, dt), h[n - 1].val[c]))
         IN FAdd(s1, FMul(FMul(FHalf, dt), h[n].val[c]))

accumulating == prepared /\ averaged(options) /\ qcalls # <<>>

t_sum_exact ==
    LET n == Len(qcalls)
        lo == times_lo(qcalls)
    IN ExactEq(t_sum.m, t_sum.e, time_int(qcalls, n) - time_int(qcalls, 1), lo)

val_sum_exact(c) ==
    ExactEq(val_sum[c].m, val_sum[c].e,
            trapezoid_int(qcalls, c, Len(qcalls)),
            times_lo(qcalls) + values_lo(qcalls, c) - 1)

\* |t_sum - (t_n - t_1)| <= (n - 1) ulp(t_n), decided in integers.
t_sum_within_ulps ==
    LET n == Len(qcalls)
        tn == qcalls[n].t
        lo == MinOf({t_sum.e, times_lo(qcalls)})
        exact == (time_int(qcalls, n) - time_int(qcalls, 1))
                     * Pow2(times_lo(qcalls) - lo)
    IN Abs(t_sum.m * Pow2(t_sum.e - lo) - exact) <= (n - 1) * Pow2(tn.e - lo)

two_calls_at_zero ==
    \E k \in 1..(Len(qcalls) - 1) :
        FCmp(qcalls[k].t, FZero) = 0 /\ FCmp(qcalls[k + 1].t, FZero) = 0

sums_as_accumulated ==
    /\ t_sum = rounded_t_sum(qcalls, Len(qcalls))
    /\ val_sum = <<rounded_val_sum(qcalls, 1, Len(qcalls)),
                   rounded_val_sum(qcalls, 2, Len(qcalls))>>
    /\ val_new = qcalls[Len(qcalls)].val
    /\ t_new = qcalls[Len(qcalls)].t
    /\ (Len(qcalls) = 1 => t_sum = FZero /\ val_sum = ZeroValue)

\* C28: for a manifold with option time_averaged or space_averaged, after
\* the statistics were cleared and accumulate() was called at non-decreasing
\* times t_1 <= ... <= t_n, t_sum is t_n - t_1 and val_sum is the sum over
\* k = 2..n of 0.5 (t_k - t_{k-1}) (val_{k-1} + val_k), both as the loop
\* evaluates them in floating point, and the first call only records its
\* values and contributes nothing.
C28_TrapezoidalSums == accumulating => sums_as_accumulated

\* The same statement for histories without two consecutive calls at time
\* zero, with the bound |t_sum - (t_n - t_1)| <= (n - 1) ulp(t_n) on what
\* the rounding of the differences and of the running sum can lose.
C28_HoldsWithoutTwoCallsAtZero ==
    (accumulating /\ ~two_calls_at_zero) =>
        sums_as_accumulated /\ t_sum_within_ulps

\* Where nothing is rounded the sums are the exact ones: t_sum and the
\* first component of val_sum for histories whose times are 0 and 3 only,
\* apart from two consecutive calls at time zero.
C28_ExactOnIntegerTimes ==
    (/\ accumulating
     /\ ~two_calls_at_zero
     /\ \A k \in 1..Len(qcalls) : qcalls[k].t \in {F(0), F(3)}) =>
        t_sum_exact /\ val_sum_exact(1)

\* Calls at the times 0, 0, 3 since the statistics were cleared: the third
\* call was taken for a first one, and t_sum is 0 where t_3 - t_1 = 3.
C28_Witness ==
    /\ accumulating
    /\ Len(qcalls) = 3
    /\ qcalls[1].t = F(0)
    /\ qcalls[2].t = F(0)
    /\ qcalls[3].t = F(3)
    /\ t_sum = FZero
    /\ val_sum = ZeroValue
    /\ ~t_sum_exact

\* Three calls at increasing positive times: all of them were summed.
C28_WitnessSummed ==
    /\ accumulating
    /\ Len(qcalls) = 3
    /\ FGt(qcalls[1].t, FZero)
    /\ FGt(qcalls[2].t, qcalls[1].t)
    /\ FGt(qcalls[3].t, qcalls[2].t)
    /\ t_sum = rounded_t_sum(qcalls, 3)


\* ---- C29: the mesh files are written once after each prepare() ----------

\* C29: write_out writes the mesh files on the first write_out after each
\* prepare() and on no later write_out until prepare() is called again: of
\* the write_out calls made since the last prepare(), exactly the first one
\* has written them, and the flag is set from then on.
C29_MeshFilesOncePerPrepare ==
    prepared =>
        /\ mesh_written_at = (IF write_outs >= 1 THEN {1} ELSE {})
        /\ mesh_files_have_been_written_ = (write_outs >= 1)

\* Two write_out calls have been made since the last prepare(), which was not
\* the first call on the object: the first of the two has written the mesh
\* files and the second has not.
C29_Witness ==
    /\ prepared
    /\ write_outs = 2
    /\ mesh_written_at = {1}
    /\ qops = 4
    /\ mesh_files_have_been_written_

====
